---- MODULE Spec2Model ----
(***************************************************************************)
(* Model of the LLM router (src/app/router_service.py): priority-ordered   *)
(* backend selection with sliding-window rate limiting, a model-capability *)
(* cache, failover, and the statistics the router keeps.                   *)
(*                                                                         *)
(* The router runs on one asyncio event loop: the code between two awaits  *)
(* runs without interleaving, so every action below is one such block of   *)
(* a handler, from the point where it is resumed to its next await (or to  *)
(* its return / raise).                                                    *)
(*                                                                         *)
(* Strings are sequences of tokens: "|" and " " are the separator and the  *)
(* whitespace character, any other token stands for a run of characters    *)
(* holding neither. Python's None in rate_limit_requests is NoneInt.       *)
(***************************************************************************)
EXTENDS Integers, Sequences, FiniteSets, TLC

VARIABLES
    service_configs,      \* self.service_configs: descriptors sorted by priority
    services,             \* self.services: names of the adapters that initialised
    request_count,        \* self.request_count
    failover_count,       \* self.failover_count
    rate_limit_skips,     \* self.rate_limit_skips
    service_stats,        \* self.service_stats[name] = requests/failures/rate_limited
    request_timestamps,   \* self.request_timestamps[name]: deque of instants
    model_cache,          \* self.model_cache: name -> list of ids (partial)
    cache_last_updated,   \* self.cache_last_updated: name -> instant (partial)
    now,                  \* time.time()
    req,                  \* per in-flight chat_completion call: its locals
    started,              \* number of chat_completion calls begun (history)
    recorded,             \* per backend, every instant _record_request stored
                          \* since the last reset, none trimmed (history)
    op                    \* the call of another handler (list_models, get_stats,
                          \* get_health, the stream transcoder): its arguments,
                          \* its locals and what it returned

vars == <<service_configs, services, request_count, failover_count,
          rate_limit_skips, service_stats, request_timestamps, model_cache,
          cache_last_updated, now, req, started, recorded, op>>

----------------------------------------------------------------------------
(* Bounds *)

MaxRequests == 2      \* chat_completion calls begun in one behaviour
MaxTicks == 1         \* clock advances in one behaviour
MaxRecords == 3       \* requests recorded for the backend of SpecRL

(* Program constants *)

CacheTTL == 300       \* self.cache_ttl
NoneInt == -1         \* rate_limit_requests = None

(* The tasks of the event loop that may each be running chat_completion; *)
(* Spec runs the calls one after the other on the first task              *)
Slots == {"t1", "t2"}
SeqSlots == {"t1"}

----------------------------------------------------------------------------
(* Strings *)

Str(tok) == <<tok>>

RECURSIVE SplitPipe(_)
\* str.split("|"): the pieces between the separators, empty pieces kept
SplitPipe(s) ==
    IF \A k \in 1..Len(s) : s[k] # "|" THEN <<s>>
    ELSE LET p == CHOOSE k \in 1..Len(s) :
                      s[k] = "|" /\ \A j \in 1..(k-1) : s[j] # "|"
         IN <<SubSeq(s, 1, p-1)>> \o SplitPipe(SubSeq(s, p+1, Len(s)))

\* str.strip(): leading and trailing whitespace removed, inner kept
Strip(s) ==
    IF \A k \in 1..Len(s) : s[k] = " " THEN <<>>
    ELSE LET lo == CHOOSE k \in 1..Len(s) :
                       s[k] # " " /\ \A j \in 1..(k-1) : s[j] = " "
             hi == CHOOSE k \in 1..Len(s) :
                       s[k] # " " /\ \A j \in (k+1)..Len(s) : s[j] = " "
         IN SubSeq(s, lo, hi)

\* RouterService._parse_model_options
ParseModelOptions(model_string) ==
    LET parts == SplitPipe(model_string)
    IN [k \in 1..Len(parts) |-> Strip(parts[k])]

----------------------------------------------------------------------------
(* Configuration: ServiceConfig records and the lists handed to __init__ *)

\* ServiceConfig(name, backend_type, api_key, priority, rate_limit_requests,
\* rate_limit_window); has_key stands for a non-empty api_key
Config(n, ty, key, pr, rl, win) ==
    [name |-> n, backend_type |-> ty, has_key |-> key, priority |-> pr,
     rate_limit_requests |-> rl, rate_limit_window |-> win]

\* Descriptor lists a deployment may supply, in the order supplied. The
\* second one leaves the cerebras descriptor without its API key.
SuppliedLists ==
    { << Config("openai",   "openai",   TRUE,  1, NoneInt, 60),
         Config("ollama",   "ollama",   FALSE, 2, 0, 60),
         Config("cerebras", "cerebras", TRUE,  0, 1, 2) >>,
      << Config("openai",   "openai",   TRUE,  1, 1, 2),
         Config("ollama",   "ollama",   FALSE, 2, 0, 60),
         Config("cerebras", "cerebras", FALSE, 0, 1, 1) >> }

Names == {"cerebras", "openai", "ollama"}

\* ServiceConfig.has_rate_limit
HasRateLimit(cfg) ==
    cfg.rate_limit_requests # NoneInt /\ cfg.rate_limit_requests > 0

RECURSIVE SortedByPriority(_)
\* sorted(services, key=lambda s: s.priority): stable, ascending
SortedByPriority(s) ==
    IF s = <<>> THEN <<>>
    ELSE LET m == CHOOSE k \in 1..Len(s) :
                      /\ \A j \in 1..Len(s) : s[k].priority <= s[j].priority
                      /\ \A j \in 1..(k-1) : s[j].priority > s[k].priority
         IN <<s[m]>> \o SortedByPriority(SubSeq(s, 1, m-1) \o SubSeq(s, m+1, Len(s)))

\* OpenAIService.__init__ raises ValueError for these types without a key
AdapterInitFails(cfg) ==
    cfg.backend_type \in {"openai", "cerebras", "deepinfra"} /\ ~cfg.has_key

RECURSIVE InitialisedNames(_)
\* the loop of RouterService.__init__ that builds self.services
InitialisedNames(cfgs) ==
    IF cfgs = <<>> THEN <<>>
    ELSE (IF AdapterInitFails(Head(cfgs)) THEN <<>> ELSE <<Head(cfgs).name>>)
         \o InitialisedNames(Tail(cfgs))

----------------------------------------------------------------------------
(* Rate limiter *)

RECURSIVE TrimOld(_, _)
\* while timestamps and timestamps[0] <= window_start: timestamps.popleft()
TrimOld(timestamps, window_start) ==
    IF timestamps # <<>> /\ Head(timestamps) <= window_start
    THEN TrimOld(Tail(timestamps), window_start)
    ELSE timestamps

\* faulty variant: limited only above rate_limit_requests records
IsRateLimited_Above(timestamps, service_config, t) ==
    IF ~HasRateLimit(service_config)
    THEN [limited |-> FALSE, timestamps |-> timestamps]
    ELSE LET kept == TrimOld(timestamps, t - service_config.rate_limit_window)
         IN [limited |-> Len(kept) > service_config.rate_limit_requests,
             timestamps |-> kept]

\* faulty variant: a limited answer pops one timestamp more
IsRateLimited_DropsOldest(timestamps, service_config, t) ==
    IF ~HasRateLimit(service_config)
    THEN [limited |-> FALSE, timestamps |-> timestamps]
    ELSE LET kept == TrimOld(timestamps, t - service_config.rate_limit_window)
             limited == Len(kept) >= service_config.rate_limit_requests
         IN [limited |-> limited,
             timestamps |-> IF limited /\ kept # <<>> THEN Tail(kept) ELSE kept]

\* RouterService._is_rate_limited: the answer and the deque it leaves behind
IsRateLimited(timestamps, service_config, t) ==
    IF ~HasRateLimit(service_config)
    THEN [limited |-> FALSE, timestamps |-> timestamps]
    ELSE LET kept == TrimOld(timestamps, t - service_config.rate_limit_window)
         IN [limited |-> Len(kept) >= service_config.rate_limit_requests,
             timestamps |-> kept]

\* RouterService._record_request
RecordRequest(ts, service_name, t) ==
    [ts EXCEPT ![service_name] = Append(@, t)]

----------------------------------------------------------------------------
(* Capability cache *)

\* faulty variant: an entry whose age is exactly the TTL still counts as valid
IsCacheValid_UpToTTL(clu, service_name, t) ==
    /\ service_name \in DOMAIN clu
    /\ (t - clu[service_name]) <= CacheTTL

\* RouterService._is_cache_valid
IsCacheValid(clu, service_name, t) ==
    /\ service_name \in DOMAIN clu
    /\ (t - clu[service_name]) < CacheTTL

\* RouterService._service_supports_model
ServiceSupportsModel(cache, service_name, model_id) ==
    IF service_name \notin DOMAIN cache THEN TRUE
    ELSE \E k \in 1..Len(cache[service_name]) : cache[service_name][k] = model_id

\* faulty variant: the last supported option of the chain instead of the first
GetBestModelForService_Last(cache, service_name, model_options) ==
    LET ok == {k \in 1..Len(model_options) :
                  ServiceSupportsModel(cache, service_name, model_options[k])}
    IN IF ok = {} THEN [found |-> FALSE, model |-> <<>>]
       ELSE [found |-> TRUE,
             model |-> model_options[CHOOSE k \in ok : \A j \in ok : k >= j]]

\* RouterService._get_best_model_for_service; found = FALSE stands for None
GetBestModelForService(cache, service_name, model_options) ==
    LET ok == {k \in 1..Len(model_options) :
                  ServiceSupportsModel(cache, service_name, model_options[k])}
    IN IF ok = {} THEN [found |-> FALSE, model |-> <<>>]
       ELSE [found |-> TRUE,
             model |-> model_options[CHOOSE k \in ok : \A j \in ok : k <= j]]

\* model_ids = [model.get("id", "") for model in models if model.get("id")]
RECURSIVE ModelIds(_)
ModelIds(models) ==
    IF models = <<>> THEN <<>>
    ELSE (IF Head(models).id # <<>> THEN <<Head(models).id>> ELSE <<>>)
         \o ModelIds(Tail(models))

SeqToSet(s) == {s[k] : k \in 1..Len(s)}

\* f with key k bound to v (dict assignment)
Assign(f, k, v) == [x \in (DOMAIN f) \cup {k} |-> IF x = k THEN v ELSE f[x]]

----------------------------------------------------------------------------
(* chat_completion: one selection round *)

NoException == [kind |-> "none", status |-> 0, type |-> "none", service |-> "none"]

\* an HTTPException as the caller sees it: status code, detail.error.type and
\* the backend the detail names ("none" for the router's own errors)
HTTPException(status, type, service) ==
    [kind |-> "exc", status |-> status, type |-> type, service |-> service]

\* the 429 raised when all_rate_limited is true
RateLimitExceeded == HTTPException(429, "rate_limit_exceeded", "none")

\* the 503 raised after the loop when last_exception is None
ServiceUnavailable == HTTPException(503, "service_unavailable", "none")

RECURSIVE ScanFrom_CountsEverySkip(_, _, _, _, _)
\* faulty variant: rate_limit_skips is incremented at every skip, without
\* `if len(attempted_services) == 0`
ScanFrom_CountsEverySkip(i, st, cache, model_options, t) ==
    IF i > Len(services) THEN st
    ELSE
      LET service_name == services[i]
          service_config == service_configs[i]
          rl == IsRateLimited(st.ts[service_name], service_config, t)
          trimmed == [st EXCEPT !.ts[service_name] = rl.timestamps]
          best_model == GetBestModelForService(cache, service_name, model_options)
      IN IF service_name \in st.att
           THEN ScanFrom_CountsEverySkip(i + 1, st, cache, model_options, t)
         ELSE IF rl.limited
           THEN ScanFrom_CountsEverySkip(i + 1,
                    [trimmed EXCEPT
                        !.stats[service_name].rate_limited = @ + 1,
                        !.skips = @ + 1],
                    cache, model_options, t)
         ELSE IF ~best_model.found
           THEN ScanFrom_CountsEverySkip(i + 1,
                    [trimmed EXCEPT !.att = @ \cup {service_name}],
                    cache, model_options, t)
         ELSE [trimmed EXCEPT !.sel = i, !.model = best_model.model]

RECURSIVE ScanFrom_CapabilityFirst(_, _, _, _, _)
\* faulty variant: the models are looked up before the rate limit is checked,
\* so a rate-limited backend without a model of the chain is put in attempted
ScanFrom_CapabilityFirst(i, st, cache, model_options, t) ==
    IF i > Len(services) THEN st
    ELSE
      LET service_name == services[i]
          service_config == service_configs[i]
          rl == IsRateLimited(st.ts[service_name], service_config, t)
          trimmed == [st EXCEPT !.ts[service_name] = rl.timestamps]
          best_model == GetBestModelForService(cache, service_name, model_options)
      IN IF service_name \in st.att
           THEN ScanFrom_CapabilityFirst(i + 1, st, cache, model_options, t)
         ELSE IF ~best_model.found
           THEN ScanFrom_CapabilityFirst(i + 1,
                    [st EXCEPT !.att = @ \cup {service_name}],
                    cache, model_options, t)
         ELSE IF rl.limited
           THEN ScanFrom_CapabilityFirst(i + 1,
                    [trimmed EXCEPT
                        !.stats[service_name].rate_limited = @ + 1,
                        !.skips = IF Cardinality(st.att) = 0 THEN @ + 1 ELSE @],
                    cache, model_options, t)
         ELSE [trimmed EXCEPT !.sel = i, !.model = best_model.model]

RECURSIVE ScanFrom_SkipIsAttempted(_, _, _, _, _)
\* faulty variant: a backend skipped as rate-limited is put in attempted
ScanFrom_SkipIsAttempted(i, st, cache, model_options, t) ==
    IF i > Len(services) THEN st
    ELSE
      LET service_name == services[i]
          service_config == service_configs[i]
          rl == IsRateLimited(st.ts[service_name], service_config, t)
          trimmed == [st EXCEPT !.ts[service_name] = rl.timestamps]
          best_model == GetBestModelForService(cache, service_name, model_options)
      IN IF service_name \in st.att
           THEN ScanFrom_SkipIsAttempted(i + 1, st, cache, model_options, t)
         ELSE IF rl.limited
           THEN ScanFrom_SkipIsAttempted(i + 1,
                    [trimmed EXCEPT
                        !.stats[service_name].rate_limited = @ + 1,
                        !.skips = IF Cardinality(st.att) = 0 THEN @ + 1 ELSE @,
                        !.att = @ \cup {service_name}],
                    cache, model_options, t)
         ELSE IF ~best_model.found
           THEN ScanFrom_SkipIsAttempted(i + 1,
                    [trimmed EXCEPT !.att = @ \cup {service_name}],
                    cache, model_options, t)
         ELSE [trimmed EXCEPT !.sel = i, !.model = best_model.model]

RECURSIVE ScanFrom(_, _, _, _, _)
\* The for loop that looks for a backend, from position i on. st carries what
\* the loop reads and writes: the windows (ts), service_stats (stats),
\* rate_limit_skips (skips), attempted_services (att) and the selection
\* (sel = 0 for selected_index None, model).
ScanFrom(i, st, cache, model_options, t) ==
    IF i > Len(services) THEN st
    ELSE
      LET service_name == services[i]
          service_config == service_configs[i]
          rl == IsRateLimited(st.ts[service_name], service_config, t)
          trimmed == [st EXCEPT !.ts[service_name] = rl.timestamps]
          best_model == GetBestModelForService(cache, service_name, model_options)
      IN IF service_name \in st.att
           THEN ScanFrom(i + 1, st, cache, model_options, t)
         ELSE IF rl.limited
           THEN ScanFrom(i + 1,
                    [trimmed EXCEPT
                        !.stats[service_name].rate_limited = @ + 1,
                        !.skips = IF Cardinality(st.att) = 0 THEN @ + 1 ELSE @],
                    cache, model_options, t)
         ELSE IF ~best_model.found
           THEN ScanFrom(i + 1, [trimmed EXCEPT !.att = @ \cup {service_name}],
                         cache, model_options, t)
         ELSE [trimmed EXCEPT !.sel = i, !.model = best_model.model]

RECURSIVE AllRateLimitedFrom_IgnoresAttempted(_, _, _, _)
\* faulty variant: the loop leaves out `if service_name not in
\* attempted_services`, so a tried backend that is not limited clears the flag
AllRateLimitedFrom_IgnoresAttempted(i, ts, att, t) ==
    IF i > Len(services) THEN [all |-> TRUE, ts |-> ts]
    ELSE
      LET service_name == services[i]
          rl == IsRateLimited(ts[service_name], service_configs[i], t)
          ts2 == [ts EXCEPT ![service_name] = rl.timestamps]
      IN IF ~rl.limited THEN [all |-> FALSE, ts |-> ts2]
         ELSE AllRateLimitedFrom_IgnoresAttempted(i + 1, ts2, att, t)

RECURSIVE AllRateLimitedFrom(_, _, _, _)
\* The loop that computes all_rate_limited, from position i on; it stops at
\* the first backend that is not attempted and not limited. Returns the flag
\* and the windows as the calls to _is_rate_limited leave them.
AllRateLimitedFrom(i, ts, att, t) ==
    IF i > Len(services) THEN [all |-> TRUE, ts |-> ts]
    ELSE
      LET service_name == services[i]
          rl == IsRateLimited(ts[service_name], service_configs[i], t)
          ts2 == [ts EXCEPT ![service_name] = rl.timestamps]
      IN IF service_name \in att THEN AllRateLimitedFrom(i + 1, ts, att, t)
         ELSE IF ~rl.limited THEN [all |-> FALSE, ts |-> ts2]
         ELSE AllRateLimitedFrom(i + 1, ts2, att, t)

\* response.router of a successful call
RouterMetadata(q) ==
    [kind |-> "response",
     service |-> services[q.selected_index],
     attempt |-> q.attempt_number,
     backend_type |-> service_configs[q.selected_index].backend_type,
     requested_model |-> q.model,
     actual_model |-> q.selected_model,
     model_options |-> q.model_options]

\* the except Exception branch: the unexpected error wrapped as a 500
ServiceError(service_name) == HTTPException(500, "service_error", service_name)

RECURSIVE Round(_, _, _, _, _)
RECURSIVE AfterFailure(_, _, _, _, _, _)

\* faulty variant: the except HTTPException branch forgets
\* attempted_services.add(service_name)
AfterFailure_HttpNotMarked(st, q, cache, exc, tscan, t2) ==
    LET name == services[q.selected_index]
        st1 == [st EXCEPT !.stats[name].failures = @ + 1]
        q1 == [q EXCEPT !.last_exception = exc,
                        !.attempted = IF exc.type = "service_error"
                                      THEN @ \cup {name} ELSE @]
    IN IF Cardinality(q1.attempted) < Len(services)
       THEN Round([st1 EXCEPT !.failover = @ + 1],
                  [q1 EXCEPT !.failovers = @ + 1], cache, tscan, t2)
       ELSE [st |-> st1, q |-> [q1 EXCEPT !.pc = "done", !.result = exc]]

\* faulty variant: failover_count is incremented after every failure, the
\* last one included
AfterFailure_AlwaysFailover(st, q, cache, exc, tscan, t2) ==
    LET name == services[q.selected_index]
        st1 == [st EXCEPT !.stats[name].failures = @ + 1, !.failover = @ + 1]
        q1 == [q EXCEPT !.last_exception = exc, !.attempted = @ \cup {name},
                        !.failovers = @ + 1]
    IN IF Cardinality(q1.attempted) < Len(services)
       THEN Round(st1, q1, cache, tscan, t2)
       ELSE [st |-> st1, q |-> [q1 EXCEPT !.pc = "done", !.result = exc]]

\* faulty variant: a failure is raised to the caller at once, no other
\* backend is tried
AfterFailure_NoFailover(st, q, cache, exc, tscan, t2) ==
    LET name == services[q.selected_index]
    IN [st |-> [st EXCEPT !.stats[name].failures = @ + 1],
        q  |-> [q EXCEPT !.last_exception = exc, !.attempted = @ \cup {name},
                         !.pc = "done", !.result = exc]]

\* faulty variant: a failed attempt is taken back from the request counter
\* of the backend
AfterFailure_UndoesRequest(st, q, cache, exc, tscan, t2) ==
    LET name == services[q.selected_index]
        st1 == [st EXCEPT !.stats[name].failures = @ + 1,
                          !.stats[name].requests = @ - 1]
        q1 == [q EXCEPT !.last_exception = exc, !.attempted = @ \cup {name}]
    IN IF Cardinality(q1.attempted) < Len(services)
       THEN Round([st1 EXCEPT !.failover = @ + 1],
                  [q1 EXCEPT !.failovers = @ + 1], cache, tscan, t2)
       ELSE [st |-> st1, q |-> [q1 EXCEPT !.pc = "done", !.result = exc]]

\* faulty variant: the backend is called without _record_request
Selected_NotRecorded(st, q, sc, cache, t2) ==
    LET name == services[sc.sel]
        st3 == [st EXCEPT !.ts = sc.ts,
                          !.stats = [sc.stats EXCEPT ![name].requests = @ + 1],
                          !.skips = sc.skips]
        q3 == [q EXCEPT !.attempted = sc.att,
                        !.selected_index = sc.sel,
                        !.selected_model = sc.model,
                        !.attempt_number = Cardinality(sc.att) + 1,
                        !.invoked = Append(@, name),
                        !.rounds = @ + 1]
    IN IF q.stream
       THEN AfterFailure(st3, q3, cache, ServiceError(name), t2, t2)
       ELSE [st |-> st3, q |-> [q3 EXCEPT !.pc = "invoking"]]

\* faulty variant: the selected model is written into the request of the
\* caller, without request.copy()
Selected_MutatesRequest(st, q, sc, cache, t2) ==
    LET name == services[sc.sel]
        st3 == [st EXCEPT !.ts = RecordRequest(sc.ts, name, t2),
                          !.rec = RecordRequest(st.rec, name, t2),
                          !.stats = [sc.stats EXCEPT ![name].requests = @ + 1],
                          !.skips = sc.skips]
        q3 == [q EXCEPT !.attempted = sc.att,
                        !.selected_index = sc.sel,
                        !.selected_model = sc.model,
                        !.model = sc.model,
                        !.attempt_number = Cardinality(sc.att) + 1,
                        !.invoked = Append(@, name),
                        !.rounds = @ + 1]
    IN IF q.stream
       THEN AfterFailure(st3, q3, cache, ServiceError(name), t2, t2)
       ELSE [st |-> st3, q |-> [q3 EXCEPT !.pc = "invoking"]]

\* the part of a pass that follows a scan sc which selected a backend
Selected(st, q, sc, cache, t2) ==
    LET name == services[sc.sel]
        st3 == [st EXCEPT !.ts = RecordRequest(sc.ts, name, t2),
                          !.rec = RecordRequest(st.rec, name, t2),
                          !.stats = [sc.stats EXCEPT ![name].requests = @ + 1],
                          !.skips = sc.skips]
        q3 == [q EXCEPT !.attempted = sc.att,
                        !.selected_index = sc.sel,
                        !.selected_model = sc.model,
                        !.attempt_number = Cardinality(sc.att) + 1,
                        !.invoked = Append(@, name),
                        !.rounds = @ + 1]
    IN IF q.stream
       \* the adapter hands back an async generator at once; setting
       \* .router on it raises AttributeError, caught as Exception
       THEN AfterFailure(st3, q3, cache, ServiceError(name), t2, t2)
       ELSE [st |-> st3, q |-> [q3 EXCEPT !.pc = "invoking"]]

\* the scan of a pass
Scan(st, q, cache, tscan) ==
    ScanFrom(1, [ts |-> st.ts, stats |-> st.stats, skips |-> st.skips,
                 att |-> q.attempted, sel |-> 0, model |-> <<>>],
             cache, q.model_options, tscan)

\* faulty variant: with no backend selected, all_rate_limited is true only
\* if some backend is left outside attempted_services
Round_NoneLeftIsNotLimited(st, q, cache, tscan, t2) ==
    LET sc == Scan(st, q, cache, tscan)
    IN IF sc.sel = 0
       THEN LET chk == AllRateLimitedFrom(1, sc.ts, sc.att, t2)
                none_left == SeqToSet(services) \subseteq sc.att
            IN [st |-> [st EXCEPT !.ts = chk.ts, !.stats = sc.stats, !.skips = sc.skips],
                q  |-> [q EXCEPT !.pc = "done",
                                 !.rounds = @ + 1,
                                 !.attempted = sc.att,
                                 !.result = IF chk.all /\ ~none_left THEN RateLimitExceeded
                                            ELSE IF q.last_exception.kind # "none"
                                                 THEN q.last_exception
                                            ELSE ServiceUnavailable]]
       ELSE Selected(st, q, sc, cache, t2)

\* faulty variant: with no backend selected, a recorded failure is raised
\* before all_rate_limited is looked at
Round_LastExceptionFirst(st, q, cache, tscan, t2) ==
    LET sc == Scan(st, q, cache, tscan)
    IN IF sc.sel = 0
       THEN LET chk == AllRateLimitedFrom(1, sc.ts, sc.att, t2)
            IN [st |-> [st EXCEPT !.ts = chk.ts, !.stats = sc.stats, !.skips = sc.skips],
                q  |-> [q EXCEPT !.pc = "done",
                                 !.rounds = @ + 1,
                                 !.attempted = sc.att,
                                 !.result = IF q.last_exception.kind # "none"
                                            THEN q.last_exception
                                            ELSE IF chk.all THEN RateLimitExceeded
                                            ELSE ServiceUnavailable]]
       ELSE Selected(st, q, sc, cache, t2)

\* One pass of the while loop of chat_completion, up to the await of the
\* backend call (pc = "invoking") or to the raise that ends the call
\* (pc = "done"). st holds the router fields the loop writes (ts, stats,
\* skips, failover; rec is the history variable), q the locals of the call
\* (invoked, failovers and rounds are history: the backends called, the
\* increments of failover_count and the passes of the loop made by the call).
\* The scan reads the clock as tscan, the statements after it as t2.
Round(st, q, cache, tscan, t2) ==
    LET sc == Scan(st, q, cache, tscan)
    IN IF sc.sel = 0
       THEN LET chk == AllRateLimitedFrom(1, sc.ts, sc.att, t2)
            IN [st |-> [st EXCEPT !.ts = chk.ts, !.stats = sc.stats, !.skips = sc.skips],
                q  |-> [q EXCEPT !.pc = "done",
                                 !.rounds = @ + 1,
                                 !.attempted = sc.att,
                                 !.result = IF chk.all THEN RateLimitExceeded
                                            ELSE IF q.last_exception.kind # "none"
                                                 THEN q.last_exception
                                            ELSE ServiceUnavailable]]
       ELSE Selected(st, q, sc, cache, t2)

\* The two except branches of chat_completion and what follows them: the
\* next pass of the loop, whose scan reads the clock as tscan
AfterFailure(st, q, cache, exc, tscan, t2) ==
    LET name == services[q.selected_index]
        st1 == [st EXCEPT !.stats[name].failures = @ + 1]
        q1 == [q EXCEPT !.last_exception = exc, !.attempted = @ \cup {name}]
    IN IF Cardinality(q1.attempted) < Len(services)
       THEN Round([st1 EXCEPT !.failover = @ + 1],
                  [q1 EXCEPT !.failovers = @ + 1], cache, tscan, t2)
       ELSE [st |-> st1, q |-> [q1 EXCEPT !.pc = "done", !.result = exc]]

----------------------------------------------------------------------------
(* Inputs *)

MX == Str("llama3.1-8b")
MY == Str("gpt-4")
MZ == Str("qwen3")

\* request.model strings clients send: " gpt-4 | llama3.1-8b" and "qwen3"
ModelStrings ==
    { <<" ">> \o MY \o <<" ", "|", " ">> \o MX,
      MZ }

Model(id) == [id |-> id]

\* OpenAIService._get_fallback_models, the ids of the catalog of a type
FallbackModels(backend_type) ==
    IF backend_type = "openai"
      THEN <<Model(Str("gpt-4")), Model(Str("gpt-4-turbo")), Model(Str("gpt-3.5-turbo"))>>
    ELSE IF backend_type = "cerebras"
      THEN <<Model(Str("llama3.1-8b")), Model(Str("llama3.1-70b"))>>
    ELSE IF backend_type = "deepinfra"
      THEN <<Model(Str("Qwen/Qwen3-Coder-480B-A35B-Instruct-Turbo")),
             Model(Str("Qwen/Qwen3-Coder-480B-A35B-Instruct")),
             Model(Str("Qwen/Qwen3-30B-A3B")),
             Model(Str("Qwen/Qwen3-235B-A22B-Thinking-2507"))>>
    ELSE IF backend_type = "ollama"
      THEN <<Model(Str("llama-2-7b-chat")), Model(Str("llama-2-13b-chat")),
             Model(Str("mistral-7b-instruct"))>>
    ELSE <<Model(Str("default"))>>

\* "data" of the bodies an upstream /models endpoint answers with
UpstreamListings ==
    { <<Model(MY), Model(<<>>)>> }

\* Spec has every listing come from the fallback catalog
NoListings == {}

\* the descriptor a backend was configured with
ConfigOf(service_name) ==
    service_configs[CHOOSE k \in 1..Len(service_configs) :
                        service_configs[k].name = service_name]

\* what `await service.list_models()` can produce for a backend: a listing
\* (from upstream, or the fallback catalog after a transport or status
\* failure), or an exception that is neither (kind "raise")
ListOutcomes(service_name, listings) ==
    {[kind |-> "raise", data |-> <<>>]}
    \cup {[kind |-> "ok", data |-> d] : d \in listings}
    \cup {[kind |-> "ok", data |-> FallbackModels(ConfigOf(service_name).backend_type)]}

\* what `await selected_service.chat_completion(...)` can produce without
\* streaming: a response, an HTTPException of the adapter, another exception
ChatOutcomes(service_name) ==
    { [kind |-> "ok", exc |-> NoException],
      [kind |-> "http", exc |-> HTTPException(503, "api_error", service_name)],
      [kind |-> "other", exc |-> ServiceError(service_name)] }

----------------------------------------------------------------------------
(* State *)

IdleCall ==
    [pc |-> "idle", model |-> <<>>, stream |-> FALSE, model_options |-> <<>>,
     attempted |-> {}, last_exception |-> NoException, ri |-> 0,
     selected_index |-> 0, selected_model |-> <<>>, attempt_number |-> 0,
     result |-> NoException, invoked |-> <<>>, failovers |-> 0, rounds |-> 0,
     list_failed |-> {}]

\* no other handler has been called
NoOp == [kind |-> "none"]

\* RouterService.__init__ on one of the lists
RouterInit(lists) ==
    /\ \E supplied \in lists :
          /\ service_configs = SortedByPriority(supplied)
          /\ services = InitialisedNames(SortedByPriority(supplied))
    /\ request_count = 0
    /\ failover_count = 0
    /\ rate_limit_skips = 0
    /\ service_stats = [n \in SeqToSet(services) |->
                           [requests |-> 0, failures |-> 0, rate_limited |-> 0]]
    /\ request_timestamps = [n \in SeqToSet(services) |-> <<>>]
    /\ model_cache = <<>>
    /\ cache_last_updated = <<>>
    /\ now = 0
    /\ req = [r \in Slots |-> IdleCall]
    /\ started = 0
    /\ recorded = [n \in SeqToSet(services) |-> <<>>]

\* the router as constructed, no other handler called
InitWith(lists) == RouterInit(lists) /\ op = NoOp

Init == InitWith(SuppliedLists)

\* the long clock advance: one second short of the cache TTL
LongWait == CacheTTL - 1

\* clock advances used so far
Elapsed(t) == (t \div LongWait) + (t % LongWait)

\* instants the clock may show later in the same block of code
LaterInBlock(t) == {t} \cup (IF Elapsed(t) < MaxTicks THEN {t + 1} ELSE {})

RouterFields ==
    [ts |-> request_timestamps, stats |-> service_stats,
     skips |-> rate_limit_skips, failover |-> failover_count, rec |-> recorded]

\* write back what a block of chat_completion computed
Commit(r, res, t2) ==
    /\ request_timestamps' = res.st.ts
    /\ service_stats' = res.st.stats
    /\ rate_limit_skips' = res.st.skips
    /\ failover_count' = res.st.failover
    /\ req' = [req EXCEPT ![r] = res.q]
    /\ recorded' = res.st.rec
    /\ now' = t2

\* _refresh_stale_caches: first position from i on whose cache is not valid
\* (0 when the loop runs to its end without a call)
FirstInvalidFrom(i, clu, t) ==
    LET bad == {k \in i..Len(services) : ~IsCacheValid(clu, services[k], t)}
    IN IF bad = {} THEN 0 ELSE CHOOSE k \in bad : \A j \in bad : k <= j

\* faulty variant: the try encloses the whole loop, a listing that raises
\* ends the refresh
NextToRefresh_StopsOnFailure(i, clu, t, failed) ==
    IF failed THEN 0 ELSE FirstInvalidFrom(i, clu, t)

\* _refresh_stale_caches: the position the loop awaits next after the listing
\* of position i - 1 returned or raised (failed); the try is inside the loop
NextToRefresh(i, clu, t, failed) == FirstInvalidFrom(i, clu, t)

\* faulty variant: the except branch stores an empty model list
CacheAfterListing_EmptyOnFailure(cache, service_name, out) ==
    IF out.kind = "ok"
    THEN Assign(cache, service_name, ModelIds(out.data))
    ELSE Assign(cache, service_name, <<>>)

\* model_cache after `await service.list_models()` gave out:
\* _update_model_cache on a listing, nothing in the except branch
CacheAfterListing(cache, service_name, out) ==
    IF out.kind = "ok"
    THEN Assign(cache, service_name, ModelIds(out.data))
    ELSE cache

\* faulty variant: request_count is written back from a value read before
\* a suspension, so the increment is lost when another call is in progress
ChatStart_LostCount(r, model_string, stream) ==
    /\ req[r].pc \in {"idle", "done"}
    /\ started < MaxRequests
    /\ started' = started + 1
    /\ request_count' = IF \E o \in Slots : req[o].pc \in {"listing", "invoking"}
                         THEN request_count
                         ELSE request_count + 1
    /\ UNCHANGED <<service_configs, services, model_cache, cache_last_updated,
                   op>>
    /\ LET q == [IdleCall EXCEPT !.model = model_string, !.stream = stream,
                                 !.model_options = ParseModelOptions(model_string)]
           j == FirstInvalidFrom(1, cache_last_updated, now)
       IN IF j # 0
          THEN /\ req' = [req EXCEPT ![r] = [q EXCEPT !.pc = "listing", !.ri = j]]
               /\ UNCHANGED <<request_timestamps, service_stats, rate_limit_skips,
                              failover_count, now, recorded>>
          ELSE \E t2 \in LaterInBlock(now) :
                  \E res \in {Round(RouterFields, q, model_cache, now, t2)} :
                      Commit(r, res, t2)

\* chat_completion from its entry to its first await (or its end)
ChatStart(r, model_string, stream) ==
    /\ req[r].pc \in {"idle", "done"}
    /\ started < MaxRequests
    /\ started' = started + 1
    /\ request_count' = request_count + 1
    /\ UNCHANGED <<service_configs, services, model_cache, cache_last_updated,
                   op>>
    /\ LET q == [IdleCall EXCEPT !.model = model_string, !.stream = stream,
                                 !.model_options = ParseModelOptions(model_string)]
           j == FirstInvalidFrom(1, cache_last_updated, now)
       IN IF j # 0
          THEN /\ req' = [req EXCEPT ![r] = [q EXCEPT !.pc = "listing", !.ri = j]]
               /\ UNCHANGED <<request_timestamps, service_stats, rate_limit_skips,
                              failover_count, now, recorded>>
          ELSE \E t2 \in LaterInBlock(now) :
                  \E res \in {Round(RouterFields, q, model_cache, now, t2)} :
                      Commit(r, res, t2)

\* chat_completion resumed by the answer of list_models inside
\* _refresh_stale_caches, up to its next await (or its end)
ChatListReturn(r, listings) ==
    /\ req[r].pc = "listing"
    /\ \E out \in ListOutcomes(services[req[r].ri], listings) :
       LET name == services[req[r].ri]
           cache == CacheAfterListing(model_cache, name, out)
           clu == IF out.kind = "ok"
                  THEN Assign(cache_last_updated, name, now)
                  ELSE cache_last_updated
           j == NextToRefresh(req[r].ri + 1, clu, now, out.kind # "ok")
           q == [req[r] EXCEPT !.list_failed = IF out.kind = "ok" THEN @
                                               ELSE @ \cup {name}]
       IN /\ model_cache' = cache
          /\ cache_last_updated' = clu
          /\ IF j # 0
             THEN /\ req' = [req EXCEPT ![r] = [q EXCEPT !.ri = j]]
                  /\ UNCHANGED <<request_timestamps, service_stats, rate_limit_skips,
                                 failover_count, now, recorded>>
             ELSE \E t2 \in LaterInBlock(now) :
                     \E res \in {Round(RouterFields, q, cache, now, t2)} :
                         Commit(r, res, t2)
    /\ UNCHANGED <<service_configs, services, request_count, started, op>>

\* chat_completion resumed by the outcome of the backend call, up to its
\* next await (or its end)
ChatInvokeReturn(r) ==
    /\ req[r].pc = "invoking"
    /\ \E out \in ChatOutcomes(services[req[r].selected_index]) :
       IF out.kind = "ok"
       THEN /\ req' = [req EXCEPT ![r].pc = "done",
                                  ![r].result = RouterMetadata(req[r])]
            /\ UNCHANGED <<request_timestamps, service_stats, rate_limit_skips,
                           failover_count, now, recorded>>
       ELSE \E t2 \in LaterInBlock(now) :
               \E res \in {AfterFailure(RouterFields, req[r], model_cache,
                                            out.exc, now, t2)} :
                   Commit(r, res, t2)
    /\ UNCHANGED <<service_configs, services, request_count, started,
                   model_cache, cache_last_updated, op>>

\* faulty variant: reset_stats also empties the capability cache
ResetStats_ClearsCache ==
    /\ request_count' = 0
    /\ failover_count' = 0
    /\ rate_limit_skips' = 0
    /\ service_stats' = [n \in SeqToSet(services) |->
                            [requests |-> 0, failures |-> 0, rate_limited |-> 0]]
    /\ request_timestamps' = [n \in DOMAIN request_timestamps |-> <<>>]
    /\ recorded' = [n \in DOMAIN recorded |-> <<>>]
    /\ model_cache' = <<>>
    /\ cache_last_updated' = <<>>
    /\ UNCHANGED <<service_configs, services, now, req, started, op>>

\* RouterService.reset_stats
ResetStats ==
    /\ request_count' = 0
    /\ failover_count' = 0
    /\ rate_limit_skips' = 0
    /\ service_stats' = [n \in SeqToSet(services) |->
                            [requests |-> 0, failures |-> 0, rate_limited |-> 0]]
    /\ request_timestamps' = [n \in DOMAIN request_timestamps |-> <<>>]
    /\ recorded' = [n \in DOMAIN recorded |-> <<>>]
    /\ UNCHANGED <<service_configs, services, model_cache, cache_last_updated,
                   now, req, started, op>>

\* time passes while the event loop is idle or waiting
Tick(deltas) ==
    /\ Elapsed(now) < MaxTicks
    /\ \E d \in deltas : now' = now + d
    /\ UNCHANGED <<service_configs, services, request_count, failover_count,
                   rate_limit_skips, service_stats, request_timestamps,
                   model_cache, cache_last_updated, req, started, recorded, op>>

Next ==
    \/ \E r \in SeqSlots, m \in ModelStrings, s \in BOOLEAN : ChatStart(r, m, s)
    \/ \E r \in SeqSlots : ChatListReturn(r, NoListings)
    \/ \E r \in SeqSlots : ChatInvokeReturn(r)
    \/ ResetStats
    \/ Tick({1})

Spec == Init /\ [][Next]_vars

\* The calls under fair scheduling. The awaited calls always come back: the
\* adapter's HTTP client has a timeout, so list_models and chat_completion
\* return or raise, and the event loop resumes a coroutine whose await is
\* done. A streaming call arrives when every cache entry is fresh, so that
\* it runs from its entry to its end without an await.
NextLive ==
    \/ \E r \in SeqSlots, m \in ModelStrings : ChatStart(r, m, FALSE)
    \/ \E r \in SeqSlots, m \in ModelStrings :
          ChatStart(r, m, TRUE) /\ req'[r].pc = "done"
    \/ \E r \in SeqSlots : ChatListReturn(r, NoListings)
    \/ \E r \in SeqSlots : ChatInvokeReturn(r)
    \/ ResetStats
    \/ Tick({1})

SpecLive ==
    /\ Init
    /\ [][NextLive]_vars
    /\ WF_vars(\E r \in SeqSlots : ChatListReturn(r, NoListings))
    /\ WF_vars(\E r \in SeqSlots : ChatInvokeReturn(r))

----------------------------------------------------------------------------
(* The rate limiter on its own: a router with one backend whose policy is  *)
(* drawn from RLPolicies; requests are recorded, _is_rate_limited is asked *)
(* (and trims the window), the clock advances.                             *)

RLPolicies ==
    {Config("openai", "openai", TRUE, 1, rl, win) :
        rl \in {NoneInt, 0, 1, 2}, win \in {1, 2}}

InitRL ==
    /\ \E cfg \in RLPolicies :
          /\ service_configs = SortedByPriority(<<cfg>>)
          /\ services = InitialisedNames(SortedByPriority(<<cfg>>))
    /\ request_count = 0
    /\ failover_count = 0
    /\ rate_limit_skips = 0
    /\ service_stats = [n \in SeqToSet(services) |->
                           [requests |-> 0, failures |-> 0, rate_limited |-> 0]]
    /\ request_timestamps = [n \in SeqToSet(services) |-> <<>>]
    /\ model_cache = <<>>
    /\ cache_last_updated = <<>>
    /\ now = 0
    /\ req = [r \in Slots |-> IdleCall]
    /\ started = 0
    /\ recorded = [n \in SeqToSet(services) |-> <<>>]
    /\ op = NoOp

\* _record_request(service_name) at the present instant
RLRecord(service_name) ==
    /\ Len(recorded[service_name]) < MaxRecords
    /\ request_timestamps' = RecordRequest(request_timestamps, service_name, now)
    /\ recorded' = RecordRequest(recorded, service_name, now)
    /\ UNCHANGED <<service_configs, services, request_count, failover_count,
                   rate_limit_skips, service_stats, model_cache,
                   cache_last_updated, now, req, started, op>>

\* _is_rate_limited(service_name, service_config) at the present instant:
\* what it does to the window
RLQuery(i) ==
    /\ request_timestamps' =
          [request_timestamps EXCEPT ![services[i]] =
              IsRateLimited(@, service_configs[i], now).timestamps]
    /\ UNCHANGED <<service_configs, services, request_count, failover_count,
                   rate_limit_skips, service_stats, model_cache,
                   cache_last_updated, now, req, started, recorded, op>>

NextRL ==
    \/ \E n \in SeqToSet(services) : RLRecord(n)
    \/ \E i \in 1..Len(services) : RLQuery(i)
    \/ Tick({1})

SpecRL == InitRL /\ [][NextRL]_vars

----------------------------------------------------------------------------
(* The capability cache over its TTL: requests that do not stream, listings *)
(* that come from upstream, from the fallback catalog or raise, and a clock *)
(* that may make one long advance, to one second before the TTL of an entry *)
(* written at 0.                                                            *)

\* two backends without rate limit
TTLLists ==
    { << Config("ollama", "ollama", FALSE, 2, NoneInt, 60),
         Config("openai", "openai", TRUE,  1, NoneInt, 60) >> }

\* time passes: one second, or LongWait seconds once
Wait ==
    /\ \/ /\ now < LongWait
          /\ now' = now + LongWait
       \/ /\ (now % LongWait) < MaxTicks
          /\ now' = now + 1
    /\ UNCHANGED <<service_configs, services, request_count, failover_count,
                   rate_limit_skips, service_stats, request_timestamps,
                   model_cache, cache_last_updated, req, started, recorded, op>>

NextTTL ==
    \/ \E r \in SeqSlots, m \in ModelStrings : ChatStart(r, m, FALSE)
    \/ \E r \in SeqSlots : ChatListReturn(r, UpstreamListings)
    \/ \E r \in SeqSlots : ChatInvokeReturn(r)
    \/ Wait

SpecTTL == InitWith(TTLLists) /\ [][NextTTL]_vars

----------------------------------------------------------------------------
(* Concurrent calls: two chat_completion coroutines on the one event loop, *)
(* interleaved at their awaits, with no reset. The second call starts      *)
(* while the first is suspended at an await.                               *)

\* one list: cerebras (1 request per 2 s) before openai and ollama
ConcLists ==
    { << Config("openai",   "openai",   TRUE,  1, NoneInt, 60),
         Config("ollama",   "ollama",   FALSE, 2, 0, 60),
         Config("cerebras", "cerebras", TRUE,  0, 1, 2) >> }

\* a call enters chat_completion while no call has ended yet
ConcStart(r, model_string) ==
    /\ req[r].pc = "idle"
    /\ \A o \in Slots : req[o].pc # "done"
    /\ ChatStart(r, model_string, FALSE)

NextConc ==
    \/ \E r \in Slots, m \in ModelStrings : ConcStart(r, m)
    \/ \E r \in Slots : ChatListReturn(r, NoListings)
    \/ \E r \in Slots : ChatInvokeReturn(r)
    \/ Tick({1})

SpecConc == InitWith(ConcLists) /\ [][NextConc]_vars

\* the same interleavings for every list supplied, also the one whose first
\* descriptor has no adapter
SpecConcAny == InitWith(SuppliedLists) /\ [][NextConc]_vars

----------------------------------------------------------------------------
(* RouterService.list_models: the adapters are asked one after the other,  *)
(* each answer is tagged and merged, the capability cache is updated on    *)
(* the way. A call is one block of code per awaited adapter.               *)

MaxListings == 2      \* list_models calls begun in one behaviour

\* an entry of a model listing with the OpenAI fields
ModelEntry(id, created, owned_by) ==
    [id |-> id, object |-> "model", created |-> created, owned_by |-> owned_by]

\* owned_by in the catalog of OpenAIService._get_fallback_models
CatalogOwner(backend_type) ==
    IF backend_type \in {"openai", "cerebras", "deepinfra"} THEN backend_type
    ELSE IF backend_type = "ollama" THEN "local"
    ELSE "custom"

\* "data" of OpenAIService._get_fallback_models called at instant t
FallbackCatalog(backend_type, t) ==
    LET ids == FallbackModels(backend_type)
    IN [k \in 1..Len(ids) |->
           ModelEntry(ids[k].id, t, CatalogOwner(backend_type))]

\* "data" of the bodies an upstream /models endpoint answers 200 with: one
\* entry with an id and one without, or no entry at all
UpstreamData ==
    { <<ModelEntry(MY, 7, "acme"), ModelEntry(<<>>, 7, "acme")>>,
      <<>> }

\* what `await service.list_models()` gives the router at instant t: the
\* upstream body, the catalog of the adapter's own type, or an exception
AdapterListOutcomes(service_name, t) ==
    {[kind |-> "raise", source |-> "raise", data |-> <<>>]}
    \cup {[kind |-> "ok", source |-> "upstream", data |-> d] : d \in UpstreamData}
    \cup {[kind |-> "ok", source |-> "catalog",
           data |-> FallbackCatalog(ConfigOf(service_name).backend_type, t)]}

\* model_copy = model.copy() with "service" and "backend_type" set
TaggedCopy(model, service_name, backend_type) ==
    Assign(Assign(model, "service", service_name), "backend_type", backend_type)

\* the inner for loop of list_models over models.get("data", [])
TaggedCopies(data, service_name, backend_type) ==
    [k \in 1..Len(data) |-> TaggedCopy(data[k], service_name, backend_type)]

RECURSIVE CombinedFallbackFrom(_, _)
\* the loop of _get_combined_fallback_models from position i on, at instant t
CombinedFallbackFrom(i, t) ==
    IF i > Len(services) THEN <<>>
    ELSE TaggedCopies(FallbackCatalog(ConfigOf(services[i]).backend_type, t),
                      services[i], service_configs[i].backend_type)
         \o CombinedFallbackFrom(i + 1, t)

\* RouterService._get_combined_fallback_models
CombinedFallbackModels(t) ==
    [object |-> "list",
     data |-> CombinedFallbackFrom(1, t),
     router |-> [service |-> "combined_fallback", attempt |-> Len(services),
                 backend_type |-> "fallback"]]

\* what list_models returns after its loop
ListModelsResult(combined_models, successful_services, t) ==
    IF combined_models # <<>>
    THEN [object |-> "list",
          data |-> combined_models,
          router |-> [services |-> successful_services,
                      total_services |-> Len(services),
                      working_services |-> Len(successful_services),
                      combined_models |-> Len(combined_models)]]
    ELSE CombinedFallbackModels(t)

\* list_models from its entry to its first await. answers (what each adapter
\* call gave), calls and previous (the answers and the result of the call
\* before this one) are history.
ModelsStart ==
    /\ \/ op.kind = "none"
       \/ op.kind = "list_models" /\ op.pc = "done" /\ op.calls < MaxListings
    /\ op' = [kind |-> "list_models", pc |-> "awaiting", i |-> 1,
              combined_models |-> <<>>, successful_services |-> <<>>,
              models |-> <<>>, answers |-> <<>>, result |-> <<>>,
              calls |-> IF op.kind = "none" THEN 1 ELSE op.calls + 1,
              previous |-> IF op.kind = "none" THEN NoOp
                           ELSE [kind |-> "list_models",
                                 answers |-> op.answers,
                                 result |-> op.result]]
    /\ UNCHANGED <<service_configs, services, request_count, failover_count,
                   rate_limit_skips, service_stats, request_timestamps,
                   model_cache, cache_last_updated, now, req, started, recorded>>

\* list_models resumed by the answer of the adapter at position op.i, up to
\* its next await or its return
ModelsReturn ==
    /\ op.kind = "list_models" /\ op.pc = "awaiting"
    /\ \E out \in AdapterListOutcomes(services[op.i], now) :
       LET service_name == services[op.i]
           backend_type == service_configs[op.i].backend_type
           combined == IF out.kind = "ok"
                       THEN op.combined_models
                            \o TaggedCopies(out.data, service_name, backend_type)
                       ELSE op.combined_models
           successful == IF out.kind = "ok"
                         THEN Append(op.successful_services,
                                     [name |-> service_name,
                                      backend_type |-> backend_type,
                                      models_count |-> Len(out.data)])
                         ELSE op.successful_services
           after == [op EXCEPT !.combined_models = combined,
                               !.successful_services = successful,
                               !.models = out.data,
                               !.answers = Append(@, out)]
       IN /\ model_cache' = CacheAfterListing(model_cache, service_name, out)
          /\ cache_last_updated' = IF out.kind = "ok"
                                   THEN Assign(cache_last_updated, service_name, now)
                                   ELSE cache_last_updated
          /\ op' = IF op.i < Len(services)
                   THEN [after EXCEPT !.i = @ + 1]
                   ELSE [after EXCEPT !.pc = "done",
                                      !.result = ListModelsResult(combined,
                                                                  successful, now)]
    /\ UNCHANGED <<service_configs, services, request_count, failover_count,
                   rate_limit_skips, service_stats, request_timestamps,
                   now, req, started, recorded>>

NextModels ==
    \/ ModelsStart
    \/ ModelsReturn
    \/ Tick({1})

SpecModels == Init /\ [][NextModels]_vars

----------------------------------------------------------------------------
(* The stream transcoder: OpenAIService._stream_chat_completion on a 200   *)
(* response, one upstream line at a time. A line is what aiter_lines       *)
(* yields: the text of the line without its line ending, so a blank line   *)
(* is the empty string. Tokens: "data:" and ":" are those characters,      *)
(* " " is one whitespace character, "[DONE]" the end marker, any other     *)
(* token a run of characters that json.loads reads as JsonValue says or    *)
(* rejects.                                                                *)

MaxLines == 4         \* lines of an upstream stream

\* "data: " followed by a payload
DataLine(payload) == <<"data:", " ">> \o payload

\* the lines an upstream may send
StreamLines ==
    { DataLine(<<"{hi}">>),                       \* a delta chunk
      DataLine(<<"[DONE]">>),
      <<>>,                                       \* a blank line
      <<" ">>,                                    \* a line of whitespace
      <<":", " ", "ping">>,                       \* a keep-alive comment
      DataLine(<<"{bad">>),                       \* not JSON
      <<" ">> \o DataLine(<<"[DONE]">>) \o <<" ">>,
      DataLine(<<"42">>) }                        \* JSON, but not an object

\* every sequence over S of length at most n
SeqsUpTo(S, n) == UNION {[1..k -> S] : k \in 0..n}

\* what json.loads makes of the texts it accepts:
\* {"choices":[{"delta":{"content":"hi"}}]} and 42
JsonValue ==
    [x \in {"{hi}", "42"} |->
        IF x = "{hi}"
        THEN [kind |-> "object",
              value |-> [choices |-> <<[delta |-> [content |-> "hi"]]>>]]
        ELSE [kind |-> "number", value |-> 42]]

\* json.loads(data_content): surrounding whitespace is accepted
JsonLoads(data_content) ==
    LET text == Strip(data_content)
    IN IF Len(text) = 1 /\ text[1] \in DOMAIN JsonValue
       THEN JsonValue[text[1]]
       ELSE [kind |-> "JSONDecodeError", value |-> <<>>]

\* d.get(key, default)
Get(d, key, default) == IF key \in DOMAIN d THEN d[key] ELSE default

\* one ChoiceDelta of _transform_stream_chunk, dumped without None values
TransformChoice(i, choice) ==
    LET delta_data == Get(choice, "delta", <<>>)
        delta == IF delta_data = <<>> /\ "text" \in DOMAIN choice
                 THEN [content |-> choice.text]
                 ELSE delta_data
        finish_reason == Get(choice, "finish_reason",
                             Get(choice, "stop_reason", "None"))
        dumped == [index |-> i, delta |-> delta]
    IN IF finish_reason = "None" THEN dumped
       ELSE Assign(dumped, "finish_reason", finish_reason)

\* _transform_stream_chunk(chunk_data, model) at instant t, dumped without
\* None values; "chatcmpl-uuid4" stands for the id made up for a chunk
\* that has none
TransformStreamChunk(chunk_data, model, t) ==
    LET choices == Get(chunk_data, "choices", <<>>)
        dumped == [id |-> Get(chunk_data, "id", "chatcmpl-uuid4"),
                   object |-> "chat.completion.chunk",
                   created |-> Get(chunk_data, "created", t),
                   model |-> model,
                   choices |-> [k \in 1..Len(choices) |->
                                   TransformChoice(k - 1, choices[k])]]
    IN IF "usage" \in DOMAIN chunk_data
       THEN Assign(dumped, "usage", chunk_data.usage)
       ELSE dumped

\* the items the generator yields
DataFrame(chunk_dict) == [frame |-> "data", json |-> chunk_dict]
DoneFrame == [frame |-> "data", json |-> [text |-> "[DONE]"]]
CommentFrame(line) == [frame |-> "comment", line |-> line]
Newline == [frame |-> "newline"]

\* line.startswith(prefix)
StartsWith(line, prefix) ==
    Len(line) >= Len(prefix) /\ SubSeq(line, 1, Len(prefix)) = prefix

\* faulty variant: blank upstream lines are not forwarded
OnLine_DropsBlank(tr, chunk, t) ==
    IF chunk = <<>> THEN tr
    ELSE
      LET line == Strip(chunk)
          data_content == SubSeq(line, 3, Len(line))
          parsed == JsonLoads(data_content)
      IN IF StartsWith(line, <<":", " ">>)
           THEN [tr EXCEPT !.out = Append(@, CommentFrame(line))]
         ELSE IF ~StartsWith(line, <<"data:", " ">>) THEN tr
         ELSE IF data_content = <<"[DONE]">>
           THEN [tr EXCEPT !.out = Append(@, DoneFrame), !.pc = "ended"]
         ELSE IF parsed.kind = "JSONDecodeError" THEN tr
         ELSE IF parsed.kind # "object" THEN [tr EXCEPT !.pc = "raised"]
         ELSE [tr EXCEPT !.out = Append(@, DataFrame(
                             TransformStreamChunk(parsed.value, tr.model, t)))]

\* faulty variant: json.JSONDecodeError is not caught
OnLine_BadJsonRaises(tr, chunk, t) ==
    IF chunk = <<>> THEN [tr EXCEPT !.out = Append(@, Newline)]
    ELSE
      LET line == Strip(chunk)
          data_content == SubSeq(line, 3, Len(line))
          parsed == JsonLoads(data_content)
      IN IF StartsWith(line, <<":", " ">>)
           THEN [tr EXCEPT !.out = Append(@, CommentFrame(line))]
         ELSE IF ~StartsWith(line, <<"data:", " ">>) THEN tr
         ELSE IF data_content = <<"[DONE]">>
           THEN [tr EXCEPT !.out = Append(@, DoneFrame), !.pc = "ended"]
         ELSE IF parsed.kind # "object" THEN [tr EXCEPT !.pc = "raised"]
         ELSE [tr EXCEPT !.out = Append(@, DataFrame(
                             TransformStreamChunk(parsed.value, tr.model, t)))]

\* faulty variant: the DONE message is forwarded without the break
OnLine_NoBreak(tr, chunk, t) ==
    IF chunk = <<>> THEN [tr EXCEPT !.out = Append(@, Newline)]
    ELSE
      LET line == Strip(chunk)
          data_content == SubSeq(line, 3, Len(line))
          parsed == JsonLoads(data_content)
      IN IF StartsWith(line, <<":", " ">>)
           THEN [tr EXCEPT !.out = Append(@, CommentFrame(line))]
         ELSE IF ~StartsWith(line, <<"data:", " ">>) THEN tr
         ELSE IF data_content = <<"[DONE]">>
           THEN [tr EXCEPT !.out = Append(@, DoneFrame)]
         ELSE IF parsed.kind = "JSONDecodeError" THEN tr
         ELSE IF parsed.kind # "object" THEN [tr EXCEPT !.pc = "raised"]
         ELSE [tr EXCEPT !.out = Append(@, DataFrame(
                             TransformStreamChunk(parsed.value, tr.model, t)))]

\* The body of `async for chunk in response.aiter_lines()` for one chunk, at
\* instant t: tr.out is what the generator has yielded, tr.pc "ended" after
\* the break, "raised" after an exception that is not caught (.get on a
\* value that is not a dict).
OnLine(tr, chunk, t) ==
    IF chunk = <<>> THEN [tr EXCEPT !.out = Append(@, Newline)]
    ELSE
      LET line == Strip(chunk)
          data_content == SubSeq(line, 3, Len(line))
          parsed == JsonLoads(data_content)
      IN IF StartsWith(line, <<":", " ">>)
           THEN [tr EXCEPT !.out = Append(@, CommentFrame(line))]
         ELSE IF ~StartsWith(line, <<"data:", " ">>) THEN tr
         ELSE IF data_content = <<"[DONE]">>
           THEN [tr EXCEPT !.out = Append(@, DoneFrame), !.pc = "ended"]
         ELSE IF parsed.kind = "JSONDecodeError" THEN tr
         ELSE IF parsed.kind # "object" THEN [tr EXCEPT !.pc = "raised"]
         ELSE [tr EXCEPT !.out = Append(@, DataFrame(
                             TransformStreamChunk(parsed.value, tr.model, t)))]

\* a router, and a stream of an upstream that answered 200 about to be read
InitStream ==
    /\ RouterInit(ConcLists)
    /\ \E lines \in SeqsUpTo(StreamLines, MaxLines) :
          op = [kind |-> "stream", pc |-> "reading", model |-> MY,
                lines |-> lines, pos |-> 0, out |-> <<>>]

\* the generator takes the next line of the upstream, or finds it closed
StreamLine ==
    /\ op.kind = "stream" /\ op.pc = "reading"
    /\ op' = IF op.pos = Len(op.lines)
             THEN [op EXCEPT !.pc = "ended"]
             ELSE OnLine([op EXCEPT !.pos = @ + 1], op.lines[op.pos + 1], now)
    /\ UNCHANGED <<service_configs, services, request_count, failover_count,
                   rate_limit_skips, service_stats, request_timestamps,
                   model_cache, cache_last_updated, now, req, started, recorded>>

NextStream ==
    \/ StreamLine
    \/ Tick({1})

SpecStream == InitStream /\ [][NextStream]_vars

----------------------------------------------------------------------------
(* The adapter's list_models on its own: one GET of the /models endpoint   *)
(* and what the adapter makes of the answer.                               *)

BackendTypes == {"openai", "cerebras", "deepinfra", "ollama", "custom"}

\* the bodies of a response: JSON texts (a listing, an error object) and a
\* text that is not JSON (an HTML page of a proxy, an empty body)
ResponseBodies ==
    { [json |-> TRUE,
       value |-> [object |-> "list", data |-> <<ModelEntry(MY, 7, "acme")>>]],
      [json |-> TRUE, value |-> [error |-> [message |-> "no"]]],
      [json |-> FALSE, value |-> <<>>] }

\* what `await client.get(url, headers=...)` can end in: a response with a
\* status and a body, httpx.TimeoutException, another httpx.RequestError
UpstreamAnswers ==
    { [kind |-> "response", status |-> st, body |-> b] :
          st \in {200, 204, 301, 404, 500}, b \in ResponseBodies }
    \cup { [kind |-> "TimeoutException", status |-> 0, body |-> <<>>],
           [kind |-> "RequestError", status |-> 0, body |-> <<>>] }

\* OpenAIService.list_models on the answer of the upstream, at instant t:
\* what it returns, or the exception that leaves it
AdapterListModels(backend_type, answer, t) ==
    IF answer.kind = "response" /\ answer.status = 200
    THEN IF answer.body.json
         THEN [kind |-> "return", value |-> answer.body.value]
         ELSE [kind |-> "raise", value |-> "JSONDecodeError"]
    ELSE [kind |-> "return",
          value |-> [object |-> "list", data |-> FallbackCatalog(backend_type, t)]]

\* an adapter of some type awaits the answer of its upstream
InitAdapter ==
    /\ RouterInit(ConcLists)
    /\ \E ty \in BackendTypes, answer \in UpstreamAnswers :
          op = [kind |-> "adapter_list_models", pc |-> "awaiting",
                backend_type |-> ty, answer |-> answer,
                outcome |-> [kind |-> "none", value |-> <<>>], at |-> 0]

\* list_models resumed by the answer: it returns or raises
AdapterListReturn ==
    /\ op.kind = "adapter_list_models" /\ op.pc = "awaiting"
    /\ op' = [op EXCEPT !.pc = "done", !.at = now,
                        !.outcome = AdapterListModels(op.backend_type,
                                                      op.answer, now)]
    /\ UNCHANGED <<service_configs, services, request_count, failover_count,
                   rate_limit_skips, service_stats, request_timestamps,
                   model_cache, cache_last_updated, now, req, started, recorded>>

NextAdapter ==
    \/ AdapterListReturn
    \/ Tick({1})

SpecAdapter == InitAdapter /\ [][NextAdapter]_vars

----------------------------------------------------------------------------
(* The adapter's chat_completion on an upstream that does not answer 200:  *)
(* the HTTPException that _regular_chat_completion raises, and the one the *)
(* generator of _stream_chat_completion raises when it is first read.      *)

\* a JSON member: missing, null, or a string
Absent == [kind |-> "absent", text |-> <<>>]
Null == [kind |-> "null", text |-> <<>>]
Text(s) == [kind |-> "str", text |-> s]

\* the `error` member of a body: missing, an object (with its `message`
\* member), or a bare string
NoError == [kind |-> "absent", message |-> Absent]
ErrorObject(message) == [kind |-> "object", message |-> message]
ErrorString == [kind |-> "string", message |-> Absent]

\* a response body: its text, what json.loads makes of it ("object",
\* "array", "invalid" for a text that is not JSON, "empty" for no bytes) and,
\* of an object, the members the adapter reads
Body(kind, error, message, text) ==
    [kind |-> kind, error |-> error, message |-> message, text |-> text]

ErrorBodies ==
    { Body("object", ErrorObject(Text(Str("Rate limit exceeded"))), Absent,
           Str("{\"error\": {\"message\": \"Rate limit exceeded\"}}")),
      Body("object", ErrorObject(Text(Str("Rate limit exceeded"))),
           Text(Str("quota")),
           Str("{\"error\": {\"message\": \"Rate limit exceeded\"}, \"message\": \"quota\"}")),
      Body("object", ErrorObject(Text(<<>>)), Text(Str("quota")),
           Str("{\"error\": {\"message\": \"\"}, \"message\": \"quota\"}")),
      Body("object", ErrorObject(Null), Absent,
           Str("{\"error\": {\"message\": null}}")),
      Body("object", ErrorObject(Absent), Text(Str("quota")),
           Str("{\"error\": {\"code\": 7}, \"message\": \"quota\"}")),
      Body("object", NoError, Text(Str("quota")),
           Str("{\"message\": \"quota\"}")),
      Body("object", NoError, Absent, Str("{\"detail\": \"denied\"}")),
      Body("object", ErrorString, Absent, Str("{\"error\": \"denied\"}")),
      Body("array", NoError, Absent, Str("[]")),
      Body("invalid", NoError, Absent, Str("<html>Bad Gateway</html>")),
      Body("empty", NoError, Absent, <<>>) }

\* what `await client.post(...)` / `client.stream("POST", ...)` can end in
\* here: a response whose status is not 200, or an exception of httpx
ErrorStatuses == {201, 400, 429, 500}

ErrorAnswers ==
    { [kind |-> "response", status |-> st, body |-> b] :
          st \in ErrorStatuses, b \in ErrorBodies }
    \cup { [kind |-> k, status |-> 0, body |-> Body("empty", NoError, Absent, <<>>)] :
              k \in {"TimeoutException", "RequestError"} }

\* `not x` of a JSON member the adapter holds: None and "" are falsy
Falsy(member) == member.kind = "null" \/ member.text = <<>>

\* a member inside an f-string
Formatted(member) == IF member.kind = "null" THEN Str("None") ELSE member.text

\* error_detail of the two paths. The non-streaming path calls
\* response.json() and, on any exception, takes f"HTTP {status}: {text}";
\* the streaming path reads the bytes, keeps "Unknown error" when there are
\* none, and on any exception takes f"HTTP {status}". `.get` on a value that
\* is not a dict raises AttributeError, which the `except Exception` takes.
ErrorDetail(stream, status, body) ==
    LET http == IF stream THEN <<"HTTP ", ToString(status)>>
                ELSE <<"HTTP ", ToString(status), ": ">> \o body.text
        unknown == Text(Str("Unknown error"))
        first == IF body.error.kind = "object"
                       /\ body.error.message.kind # "absent"
                 THEN body.error.message ELSE unknown
        second == IF Falsy(first) /\ body.message.kind # "absent"
                  THEN body.message ELSE first
    IN IF stream /\ body.kind = "empty" THEN unknown.text
       ELSE IF body.kind # "object" THEN http
       ELSE IF body.error.kind \notin {"absent", "object"} THEN http
       ELSE Formatted(second)

\* the HTTPException the adapter raises: status code and `detail`
AdapterHTTPException(status_code, message, type, backend) ==
    [kind |-> "raise", status_code |-> status_code, message |-> message,
     type |-> type, backend |-> backend]

\* chat_completion of an adapter on an answer that is not a 200 response
AdapterChatError(backend_type, stream, answer) ==
    IF answer.kind = "TimeoutException"
    THEN AdapterHTTPException(504, <<"Request to ", backend_type, " timed out">>,
                       "timeout_error", backend_type)
    ELSE IF answer.kind = "RequestError"
    THEN AdapterHTTPException(502, <<"Connection error to ", backend_type, ": ",
                              "str(e)">>,
                       "connection_error", backend_type)
    ELSE AdapterHTTPException(answer.status,
                       <<"[", backend_type, "] ">>
                           \o ErrorDetail(stream, answer.status, answer.body),
                       "api_error", backend_type)

\* an adapter of some type, asked for a response or for a stream, awaits an
\* upstream that will not answer 200
InitError ==
    /\ RouterInit(ConcLists)
    /\ \E ty \in BackendTypes, stream \in BOOLEAN, answer \in ErrorAnswers :
          op = [kind |-> "adapter_chat", pc |-> "awaiting",
                backend_type |-> ty, stream |-> stream, answer |-> answer,
                outcome |-> [kind |-> "none", status_code |-> 0,
                             message |-> <<>>, type |-> "", backend |-> ""]]

\* the call (or the first read of the generator) resumed by the answer
AdapterChatReturn ==
    /\ op.kind = "adapter_chat" /\ op.pc = "awaiting"
    /\ op' = [op EXCEPT !.pc = "done",
                        !.outcome = AdapterChatError(op.backend_type,
                                                     op.stream, op.answer)]
    /\ UNCHANGED <<service_configs, services, request_count, failover_count,
                   rate_limit_skips, service_stats, request_timestamps,
                   model_cache, cache_last_updated, now, req, started, recorded>>

NextError ==
    \/ AdapterChatReturn
    \/ Tick({1})

SpecError == InitError /\ [][NextError]_vars

----------------------------------------------------------------------------
(* Vocabulary of the properties *)

\* position of a backend in self.services
IndexOf(service_name) ==
    CHOOSE k \in 1..Len(services) : services[k] = service_name

\* the backend is rate-limited under the policy of its own descriptor at
\* instant t: the policy is set and at least rate_limit_requests of the
\* recorded requests rec are newer than t - rate_limit_window
LimitedUnderOwnPolicy(service_name, rec, t) ==
    LET cfg == ConfigOf(service_name)
        recent == {k \in 1..Len(rec[service_name]) :
                      rec[service_name][k] > t - cfg.rate_limit_window}
    IN /\ cfg.rate_limit_requests # NoneInt
       /\ cfg.rate_limit_requests > 0
       /\ Cardinality(recent) >= cfg.rate_limit_requests

\* the answer the router gets from _is_rate_limited for the backend, with
\* the descriptor it pairs with it, given the windows ts and the clock t
RouterLimited(service_name, ts, t) ==
    IsRateLimited(ts[service_name], service_configs[IndexOf(service_name)], t).limited

\* a backend a selection round may select: untried, not rate-limited under
\* its policy, and supporting at least one option of the chain
Eligible(service_name, att, rec, cache, model_options, t) ==
    /\ service_name \notin att
    /\ ~LimitedUnderOwnPolicy(service_name, rec, t)
    /\ GetBestModelForService(cache, service_name, model_options).found

\* this step runs code of call r
StepOf(r) == req'[r] # req[r]

\* this step of call r runs a selection round: it is not a step that only
\* goes on refreshing, nor the return of a successful backend call
RoundStep(r) ==
    /\ StepOf(r)
    /\ req'[r].pc \in {"invoking", "done"}
    /\ ~(req[r].pc = "invoking" /\ req'[r].result.kind = "response")

\* attempted_services when the first round of this step starts
AttemptedAtRound(r) ==
    IF req[r].pc = "invoking"
    THEN req[r].attempted \cup {services[req[r].selected_index]}
    ELSE {}

\* backends call r had invoked before this step
InvokedBefore(r) == IF req[r].pc \in {"idle", "done"} THEN 0 ELSE Len(req[r].invoked)

\* every configured backend got its adapter: services[i] is the adapter of
\* service_configs[i]
Aligned ==
    /\ Len(services) = Len(service_configs)
    /\ \A i \in 1..Len(services) : services[i] = service_configs[i].name

----------------------------------------------------------------------------
(* C1: in every selection round the backend selected is the first one in   *)
(* ascending priority order that is not in attempted, is not rate-limited  *)
(* under its policy at scan time and supports an option of the chain; if   *)
(* there is such a backend one is selected, and none of higher precedence  *)
(* is passed over.                                                         *)

FirstEligibleSelected(r) ==
    LET att0 == AttemptedAtRound(r)
        elig == {n \in SeqToSet(services) :
                    Eligible(n, att0, recorded, model_cache',
                             req'[r].model_options, now)}
        selects == Len(req'[r].invoked) > InvokedBefore(r)
        sel == req'[r].invoked[InvokedBefore(r) + 1]
    IN IF Cardinality(att0) >= Len(services) THEN TRUE
       ELSE IF elig = {} THEN ~selects
       ELSE /\ selects
            /\ sel \in elig
            /\ \A n \in elig : ConfigOf(sel).priority <= ConfigOf(n).priority

C1_FirstEligibleSelected ==
    [][\A r \in Slots : RoundStep(r) => FirstEligibleSelected(r)]_vars

\* the same, for routers whose adapters all initialised
C1_FirstEligibleSelectedAligned ==
    [][\A r \in Slots : (Aligned /\ RoundStep(r)) => FirstEligibleSelected(r)]_vars

----------------------------------------------------------------------------
(* C2: the model sent to the selected backend is the first option of the   *)
(* chain, in chain order, that the backend supports (a backend without a   *)
(* cache entry supports every option), whatever lower-priority backends    *)
(* support.                                                                *)

Supports(cache, service_name, model_id) ==
    \/ service_name \notin DOMAIN cache
    \/ model_id \in SeqToSet(cache[service_name])

ModelIsFirstSupported(q, cache) ==
    LET name == services[q.selected_index]
    IN \E k \in 1..Len(q.model_options) :
          /\ q.selected_model = q.model_options[k]
          /\ Supports(cache, name, q.model_options[k])
          /\ \A j \in 1..(k-1) : ~Supports(cache, name, q.model_options[j])

C2_FirstSupportedModel ==
    [][\A r \in Slots :
          (StepOf(r) /\ Len(req'[r].invoked) > InvokedBefore(r))
             => ModelIsFirstSupported(req'[r], model_cache')]_vars

\* a call waits for a backend that was sent the second option of the chain
\* while an untried backend of lower priority supports the first option
C2_Witness ==
    \E r \in Slots : \E n \in SeqToSet(services) :
        /\ req[r].pc = "invoking"
        /\ Len(req[r].model_options) = 2
        /\ req[r].selected_model = req[r].model_options[2]
        /\ services[req[r].selected_index] \in DOMAIN model_cache
        /\ ConfigOf(n).priority > ConfigOf(services[req[r].selected_index]).priority
        /\ n \notin req[r].attempted
        /\ n \in DOMAIN model_cache
        /\ Supports(model_cache, n, req[r].model_options[1])

----------------------------------------------------------------------------
(* C3: within one chat_completion call no backend is invoked twice.        *)

C3_InvokedAtMostOnce ==
    \A r \in Slots : \A i, j \in 1..Len(req[r].invoked) :
        i # j => req[r].invoked[i] # req[r].invoked[j]

\* a call has invoked two backends after skipping a rate-limited one and
\* ended in the rate-limit error
C3_Witness ==
    \E r \in Slots :
        /\ Len(req[r].invoked) = 2
        /\ req[r].pc = "done"
        /\ req[r].result = RateLimitExceeded
        /\ \E n \in SeqToSet(services) :
              n \notin req[r].attempted /\ service_stats[n].rate_limited > 0

----------------------------------------------------------------------------
(* C4: when the backend call of a request fails, the router adds 1 to the  *)
(* failures of that backend, puts it in attempted, and goes on to the next *)
(* backend its scan finds eligible instead of raising the failure; when a  *)
(* backend call made after a failure succeeds, the caller receives the     *)
(* response of that backend.                                               *)

\* a backend the scan of the router takes at instant t: untried, not limited
\* by the answer of _is_rate_limited, supporting an option of the chain
RouterEligible(service_name, att, ts, cache, model_options, t) ==
    /\ service_name \notin att
    /\ ~RouterLimited(service_name, ts, t)
    /\ \E k \in 1..Len(model_options) : Supports(cache, service_name, model_options[k])

\* this step is the return of the backend call call r was waiting for
InvokeReturns(r) == req[r].pc = "invoking" /\ StepOf(r)

FailureHandled(r) ==
    LET s == services[req[r].selected_index]
        att0 == req[r].attempted \cup {s}
        elig == {n \in SeqToSet(services) :
                    RouterEligible(n, att0, request_timestamps, model_cache,
                                   req[r].model_options, now)}
    IN /\ service_stats'[s].failures = service_stats[s].failures + 1
       /\ s \in req'[r].attempted
       /\ req'[r].last_exception.service = s
       /\ elig # {} =>
            /\ req'[r].pc = "invoking"
            /\ req'[r].result = NoException
            /\ services[req'[r].selected_index] \in elig
            /\ \A n \in elig : IndexOf(services[req'[r].selected_index]) <= IndexOf(n)

SuccessReturned(r) ==
    /\ req'[r].pc = "done"
    /\ req'[r].result.service = req[r].invoked[Len(req[r].invoked)]
    /\ req'[r].result.actual_model = req[r].selected_model

C4_FailoverToNextEligible ==
    [][\A r \in Slots :
          InvokeReturns(r) =>
             IF req'[r].result.kind = "response"
             THEN SuccessReturned(r)
             ELSE FailureHandled(r)]_vars

\* the caller got the response of the second backend invoked after the
\* first one failed
C4_Witness ==
    \E r \in Slots :
        /\ req[r].pc = "done"
        /\ req[r].result.kind = "response"
        /\ Len(req[r].invoked) = 2
        /\ req[r].result.service = req[r].invoked[2]
        /\ req[r].last_exception.service = req[r].invoked[1]
        /\ service_stats[req[r].invoked[1]].failures > 0

----------------------------------------------------------------------------
(* C5: if a call invokes every backend and every invocation fails, the     *)
(* error raised is the failure of the backend attempted last, and the call *)
(* has incremented the failover counter exactly totalBackends - 1 times.   *)

AllInvokedAllFailed(q) ==
    /\ q.pc = "done"
    /\ q.result.kind = "exc"
    /\ SeqToSet(q.invoked) = SeqToSet(services)

C5_LastFailureSurfaced ==
    \A r \in Slots :
        AllInvokedAllFailed(req[r]) =>
            /\ req[r].result.type \in {"api_error", "service_error"}
            /\ req[r].result.service = req[r].invoked[Len(req[r].invoked)]
            /\ req[r].failovers = Len(services) - 1

\* a call that was not streaming invoked all three backends and all failed
C5_Witness ==
    \E r \in Slots :
        /\ AllInvokedAllFailed(req[r])
        /\ ~req[r].stream
        /\ Len(req[r].invoked) = 3

----------------------------------------------------------------------------
(* C6: at any instant t, _is_rate_limited answers true for a backend       *)
(* exactly when the backend has a policy with rate_limit_requests > 0 and  *)
(* at least rate_limit_requests of the requests recorded for it are newer  *)
(* than t - rate_limit_window; so the answer is false again once enough    *)
(* records have left the window, and a backend without policy, or with     *)
(* rate_limit_requests = 0, is never limited.                              *)

\* the requests recorded for the backend that are newer than t - window
RecentRecords(service_name, window, t) ==
    {k \in 1..Len(recorded[service_name]) : recorded[service_name][k] > t - window}

C6_LimitedIffWindowFull ==
    \A i \in 1..Len(services) :
        LET cfg == service_configs[i]
            answer == IsRateLimited(request_timestamps[services[i]], cfg, now).limited
        IN answer <=>
              /\ cfg.rate_limit_requests # NoneInt
              /\ cfg.rate_limit_requests # 0
              /\ Cardinality(RecentRecords(services[i], cfg.rate_limit_window, now))
                    >= cfg.rate_limit_requests

\* the backend was limited, its window has been trimmed, and it is not
\* limited any more although rate_limit_requests requests were recorded
C6_Witness ==
    \E i \in 1..Len(services) :
        LET cfg == service_configs[i]
        IN /\ cfg.rate_limit_requests = 2
           /\ Len(recorded[services[i]]) >= 2
           /\ Len(request_timestamps[services[i]]) < Len(recorded[services[i]])
           /\ ~IsRateLimited(request_timestamps[services[i]], cfg, now).limited

----------------------------------------------------------------------------
(* C7: when a pass of the loop selects no backend and every backend that   *)
(* is not in attempted is rate-limited at that moment (there being at      *)
(* least one), the call ends with the 429 rate_limit_exceeded error and    *)
(* invokes no further backend.                                             *)

\* the last pass of the loop made by the call selected no backend
LastRoundSelectedNone(q) == q.rounds > Len(q.invoked)

Remaining(q) == SeqToSet(services) \ q.attempted

C7_AllRemainingLimited ==
    [][\A r \in Slots :
          ( /\ StepOf(r)
            /\ LastRoundSelectedNone(req'[r])
            /\ Remaining(req'[r]) # {}
            /\ \A n \in Remaining(req'[r]) :
                  RouterLimited(n, request_timestamps', now') )
          => /\ req'[r].pc = "done"
             /\ req'[r].result = RateLimitExceeded]_vars

\* a call ended with the 429 while an untried backend was rate-limited, after
\* a backend it had invoked failed
C7_Witness ==
    \E r \in Slots :
        /\ req[r].pc = "done"
        /\ req[r].result = RateLimitExceeded
        /\ LastRoundSelectedNone(req[r])
        /\ Remaining(req[r]) # {}
        /\ \A n \in Remaining(req[r]) : RouterLimited(n, request_timestamps, now)
        /\ req[r].last_exception.kind = "exc"

----------------------------------------------------------------------------
(* C8: when every backend is disqualified because its populated cache      *)
(* holds no model of the chain, none is rate-limited and none has been     *)
(* invoked, the call ends with the generic 503 service_unavailable error.  *)

\* in this step call r runs a pass in which every backend has a populated
\* cache without any option of the chain and none is rate-limited
NoCapableBackend(r) ==
    /\ StepOf(r)
    /\ req'[r].pc = "done"
    /\ req'[r].invoked = <<>>
    /\ \A n \in SeqToSet(services) :
          /\ n \in DOMAIN model_cache'
          /\ \A k \in 1..Len(req'[r].model_options) :
                ~Supports(model_cache', n, req'[r].model_options[k])
          /\ ~RouterLimited(n, request_timestamps, now)
          /\ ~LimitedUnderOwnPolicy(n, recorded, now)

C8_NoCapableBackendIs503 ==
    [][\A r \in Slots :
          NoCapableBackend(r) => req'[r].result = ServiceUnavailable]_vars

----------------------------------------------------------------------------
(* C9: when no capability cache holds any model of the chain and no        *)
(* backend is rate-limited, chat_completion raises the 429 whose type is   *)
(* rate_limit_exceeded ("All configured services are rate limited").       *)

----------------------------------------------------------------------------
(* C10: whenever a call ends in an error after at least one of its backend *)
(* calls failed, the error raised is the most recent backend failure.      *)

\* call r ends in an error in this step, after a failed backend call
EndsInErrorAfterFailure(r) ==
    /\ StepOf(r)
    /\ req'[r].pc = "done"
    /\ req'[r].result.kind = "exc"
    /\ req'[r].last_exception.kind = "exc"

C10_WitnessFailure ==
    \E r \in Slots :
        /\ req[r].pc = "done"
        /\ req[r].result.kind = "exc"
        /\ req[r].result = req[r].last_exception
        /\ LastRoundSelectedNone(req[r])
        /\ Remaining(req[r]) # {}

----------------------------------------------------------------------------
(* C11: during a request rate_limit_skips grows by one for each            *)
(* rate-limited backend the scan skips while attempted is still empty, and *)
(* not at all for skips made once attempted is non-empty; with the first   *)
(* backend rate-limited and the second selectable, one request raises the  *)
(* counter by exactly 1 and selects the second.                            *)

\* positions the first scan of this step of call r passes or stops at
ScannedFirst(r) ==
    IF Len(req'[r].invoked) > InvokedBefore(r)
    THEN 1..IndexOf(req'[r].invoked[InvokedBefore(r) + 1])
    ELSE 1..Len(services)

\* the backend at position k is skipped as rate-limited with attempted empty:
\* it is limited and every backend before it is limited too or supports an
\* option of the chain (so none was put in attempted)
SkippedWithNoneAttempted(r, k) ==
    /\ AttemptedAtRound(r) = {}
    /\ RouterLimited(services[k], request_timestamps, now)
    /\ \A j \in 1..(k-1) :
          \/ RouterLimited(services[j], request_timestamps, now)
          \/ \E o \in 1..Len(req'[r].model_options) :
                Supports(model_cache', services[j], req'[r].model_options[o])

C11_SkipsCountedWhileNoneAttempted ==
    [][\A r \in Slots :
          StepOf(r) =>
             rate_limit_skips' = rate_limit_skips +
                (IF RoundStep(r)
                 THEN Cardinality({k \in ScannedFirst(r) : SkippedWithNoneAttempted(r, k)})
                 ELSE 0)]_vars

\* the first request skipped the rate-limited first backend and waits for the
\* second one
C11_Witness ==
    \E r \in Slots :
        /\ req[r].pc = "invoking"
        /\ req[r].selected_index = 2
        /\ req[r].attempted = {}
        /\ rate_limit_skips = 1
        /\ service_stats[services[1]].rate_limited = 1
        /\ RouterLimited(services[1], request_timestamps, now)

----------------------------------------------------------------------------
(* C12: every backend call of a request is preceded, in that request, by   *)
(* one timestamp appended to the window of the backend and by its requests *)
(* counter going up by one; the request changes neither afterwards,        *)
(* whether the call succeeds or fails.                                     *)

\* backends call r invokes in this step
NewlyInvoked(r) ==
    {req'[r].invoked[k] : k \in (InvokedBefore(r) + 1)..Len(req'[r].invoked)}

\* w2 is w1 without some of its oldest entries
IsSuffix(w2, w1) ==
    /\ Len(w2) <= Len(w1)
    /\ \A k \in 1..Len(w2) : w2[k] = w1[Len(w1) - Len(w2) + k]

C12_RecordedBeforeInvocation ==
    [][\A r \in Slots :
          StepOf(r) =>
             \A n \in SeqToSet(services) :
                IF n \in NewlyInvoked(r)
                THEN /\ service_stats'[n].requests = service_stats[n].requests + 1
                     /\ recorded'[n] = Append(recorded[n], now')
                     /\ request_timestamps'[n] # <<>>
                     /\ request_timestamps'[n][Len(request_timestamps'[n])] = now'
                     /\ IsSuffix(SubSeq(request_timestamps'[n], 1,
                                        Len(request_timestamps'[n]) - 1),
                                 request_timestamps[n])
                ELSE /\ service_stats'[n].requests = service_stats[n].requests
                     /\ recorded'[n] = recorded[n]
                     /\ IsSuffix(request_timestamps'[n], request_timestamps[n])]_vars

\* a backend call failed and another succeeded; both timestamps and both
\* counts are in place
C12_Witness ==
    \E r \in Slots :
        /\ req[r].pc = "done"
        /\ req[r].result.kind = "response"
        /\ Len(req[r].invoked) = 2
        /\ \A k \in 1..2 :
              /\ service_stats[req[r].invoked[k]].requests = 1
              /\ Len(request_timestamps[req[r].invoked[k]]) = 1
        /\ service_stats[req[r].invoked[1]].failures = 1

----------------------------------------------------------------------------
(* C13: for a request with the stream flag set, once a backend is selected *)
(* and its adapter has returned the frame stream, the caller gets that     *)
(* stream with the routing metadata and no failure is recorded for the     *)
(* backend.                                                                *)

C13_StreamReturned ==
    [][\A r \in Slots :
          (StepOf(r) /\ req'[r].stream /\ NewlyInvoked(r) # {}) =>
             LET n == req'[r].invoked[InvokedBefore(r) + 1]
             IN /\ req'[r].result.kind = "response"
                /\ req'[r].result.service = n
                /\ service_stats'[n].failures = service_stats[n].failures]_vars

----------------------------------------------------------------------------
(* C14: when the model listing of a backend fails during a refresh, the    *)
(* cache entry of the backend (ids and refresh timestamp) is left exactly  *)
(* as it was, and a backend that was never populated stays unpopulated and *)
(* so keeps being assumed to support every model.                          *)

\* this step of call r is the return of a listing that failed
ListingFails(r) ==
    /\ req[r].pc = "listing"
    /\ StepOf(r)
    /\ services[req[r].ri] \in req'[r].list_failed

----------------------------------------------------------------------------
(* C15: before the first backend call of a request the router has asked    *)
(* for the model listing of every backend whose entry was missing or stale *)
(* (now - last refresh >= 300) when the refresh loop came to it, and of no *)
(* backend whose entry was fresh.                                          *)

Stale(service_name, clu, t) ==
    \/ service_name \notin DOMAIN clu
    \/ t - clu[service_name] >= 300

\* first position the refresh loop looks at in this step of call r
RefreshFrom(r) == IF req[r].pc = "listing" THEN req[r].ri + 1 ELSE 1

C15_RefreshesExactlyTheStale ==
    [][\A r \in Slots :
          (StepOf(r) /\ req[r].pc # "invoking") =>
             IF req'[r].pc = "listing"
             THEN /\ req'[r].ri \in RefreshFrom(r)..Len(services)
                  /\ Stale(services[req'[r].ri], cache_last_updated', now)
                  /\ \A k \in RefreshFrom(r)..(req'[r].ri - 1) :
                        ~Stale(services[k], cache_last_updated', now)
             ELSE \A k \in RefreshFrom(r)..Len(services) :
                     ~Stale(services[k], cache_last_updated', now)]_vars

\* a call waits for the listing of a backend whose entry is exactly 300 s
\* old, having passed over a backend whose entry is fresh
C15_Witness ==
    \E r \in Slots :
        /\ req[r].pc = "listing"
        /\ req[r].ri = 2
        /\ services[2] \in DOMAIN cache_last_updated
        /\ now - cache_last_updated[services[2]] = 300
        /\ services[1] \in DOMAIN cache_last_updated
        /\ now - cache_last_updated[services[1]] < 300

----------------------------------------------------------------------------
(* C16: a failed capability refresh of one backend never ends the request, *)
(* and keeps neither the backends after it from being refreshed nor any    *)
(* backend from being considered for selection in that request.            *)

\* in this step call r runs its first pass and selects the first backend,
\* in priority order, that its scan finds eligible (none if there is none)
FirstPassConsidersAll(r) ==
    LET elig == {n \in SeqToSet(services) :
                    RouterEligible(n, {}, request_timestamps, model_cache',
                                   req'[r].model_options, now)}
    IN /\ req'[r].rounds >= 1
       /\ IF elig = {} THEN req'[r].invoked = <<>> /\ req'[r].pc = "done"
          ELSE /\ req'[r].invoked # <<>>
               /\ req'[r].invoked[1] \in elig
               /\ \A n \in elig : IndexOf(req'[r].invoked[1]) <= IndexOf(n)

C16_RefreshFailureNotFatal ==
    [][\A r \in Slots :
          ListingFails(r) =>
             LET later == {k \in (req[r].ri + 1)..Len(services) :
                              Stale(services[k], cache_last_updated, now)}
             IN IF later # {}
                THEN /\ req'[r].pc = "listing"
                     /\ req'[r].ri \in later
                     /\ \A k \in later : req'[r].ri <= k
                     /\ req'[r].result = NoException
                ELSE FirstPassConsidersAll(r)]_vars

\* the listing of the first backend failed; the call went on, refreshed the
\* second backend and waits for the answer of the first
C16_Witness ==
    \E r \in Slots :
        /\ req[r].pc = "invoking"
        /\ services[1] \in req[r].list_failed
        /\ services[2] \notin req[r].list_failed
        /\ services[2] \in DOMAIN cache_last_updated
        /\ cache_last_updated[services[2]] = now
        /\ req[r].selected_index = 1

----------------------------------------------------------------------------
(* C17: reset_stats sets the request, failover and rate-limit-skip counts  *)
(* and every per-backend requests / failures / rate_limited count to zero  *)
(* and empties every rate window; it leaves the capability cache (ids and  *)
(* refresh timestamps) and the descriptors and their order unchanged.      *)

\* a step that is neither a block of a call (a call that enters is counted
\* in started, one that resumes moves on in req) nor a clock advance
ResetStep == started' = started /\ req' = req /\ now' = now

C17_ResetZeroesCountersOnly ==
    [][ResetStep =>
          /\ request_count' = 0
          /\ failover_count' = 0
          /\ rate_limit_skips' = 0
          /\ \A n \in SeqToSet(services) :
                /\ service_stats'[n].requests = 0
                /\ service_stats'[n].failures = 0
                /\ service_stats'[n].rate_limited = 0
                /\ request_timestamps'[n] = <<>>
          /\ model_cache' = model_cache
          /\ cache_last_updated' = cache_last_updated
          /\ service_configs' = service_configs
          /\ services' = services]_vars

\* after requests that filled the cache and invoked a backend, everything
\* counted is zero, the windows are empty and the cache is still populated
C17_Witness ==
    /\ started > 0
    /\ request_count = 0
    /\ \E r \in Slots : req[r].pc = "done" /\ req[r].invoked # <<>>
    /\ \A n \in SeqToSet(services) :
          /\ service_stats[n].requests = 0
          /\ request_timestamps[n] = <<>>
    /\ \E n \in DOMAIN model_cache : model_cache[n] # <<>>

----------------------------------------------------------------------------
(* C18: once a backend is rate-limited, _is_rate_limited keeps answering   *)
(* true for it until time has advanced far enough for counted timestamps   *)
(* to leave the window; nothing but the passage of time makes it available *)
(* again.                                                                  *)

\* every backend that is limited, and whose window as it is would still be
\* full at the instant of the next state, is limited in the next state
StaysLimited ==
    \A n \in SeqToSet(services) :
        ( /\ RouterLimited(n, request_timestamps, now)
          /\ RouterLimited(n, request_timestamps, now') )
        => RouterLimited(n, request_timestamps', now')

C18_OnlyTimeUnlimits == [][StaysLimited]_vars

(* C18, amended: nothing but the passage of time, or reset_stats, makes a  *)
(* rate-limited backend available again.                                   *)
C18_OnlyTimeOrResetUnlimits == [][ResetStep \/ StaysLimited]_vars

\* a backend that a request skipped as rate-limited is still limited after
\* the request has ended
C18_Witness ==
    \E n \in SeqToSet(services) : \E r \in Slots :
        /\ RouterLimited(n, request_timestamps, now)
        /\ service_stats[n].rate_limited > 0
        /\ req[r].pc = "done"
        /\ n \notin req[r].attempted

----------------------------------------------------------------------------
(* C19: every chat_completion call ends, with a response or an error,      *)
(* after at most len(services) passes of the loop and at most              *)
(* len(services) backend calls, one backend call at a time.                *)

\* a call has made at most len(services) passes and at most len(services)
\* backend calls; the one backend call it awaits is the last it made, and
\* every earlier one has come back (one pass per backend call so far)
BoundedPasses ==
    \A r \in Slots :
        /\ req[r].rounds <= Len(services)
        /\ Len(req[r].invoked) <= Len(services)
        /\ req[r].pc = "invoking" =>
              /\ req[r].invoked # <<>>
              /\ services[req[r].selected_index] = req[r].invoked[Len(req[r].invoked)]
              /\ req[r].rounds = Len(req[r].invoked)

\* a call that awaits list_models or a backend
InProgress(r) == req[r].pc \in {"listing", "invoking"}

C19_Terminates ==
    /\ []BoundedPasses
    /\ \A r \in Slots : InProgress(r) ~> (req[r].pc = "done")

\* a call that awaited its backends ended after len(services) passes and
\* as many backend calls, with three backends
C19_Witness ==
    \E r \in Slots :
        /\ req[r].pc = "done"
        /\ ~req[r].stream
        /\ Len(services) = 3
        /\ req[r].rounds = Len(services)
        /\ Len(req[r].invoked) = Len(services)

----------------------------------------------------------------------------
(* C20: with chat_completion calls interleaved at their awaits and no      *)
(* reset, no update of a counter or a window is lost: request_count is the *)
(* number of calls started, and for each backend the requests count and    *)
(* the number of timestamps recorded are the number of backend calls made  *)
(* to it. This holds at every await, so also when all calls have ended.    *)

\* the backend calls made to service_name by all the calls
Invocations(service_name) ==
    LET Count(r) == Cardinality({k \in 1..Len(req[r].invoked) :
                                    req[r].invoked[k] = service_name})
    IN Count("t1") + Count("t2")

\* the deque of service_name holds the last of the timestamps recorded for
\* it: all of them without a rate limit, else at least those of the window
WindowKeepsRecords(service_name) ==
    LET cfg == service_configs[IndexOf(service_name)]
        window == request_timestamps[service_name]
    IN /\ IsSuffix(window, recorded[service_name])
       /\ IF HasRateLimit(cfg)
          THEN Len(window) >=
                 Cardinality(RecentRecords(service_name, cfg.rate_limit_window, now))
          ELSE window = recorded[service_name]

C20_NoLostUpdate ==
    /\ request_count = Cardinality({r \in Slots : req[r].pc # "idle"})
    /\ \A n \in SeqToSet(services) :
          /\ service_stats[n].requests = Invocations(n)
          /\ Len(recorded[n]) = Invocations(n)
          /\ WindowKeepsRecords(n)

\* two calls that overlapped have both ended, each after a call to the
\* same backend
C20_Witness ==
    /\ \A r \in Slots : req[r].pc = "done"
    /\ request_count = 2
    /\ \E n \in SeqToSet(services) :
          /\ \A r \in Slots : \E k \in 1..Len(req[r].invoked) : req[r].invoked[k] = n
          /\ service_stats[n].requests >= 2

----------------------------------------------------------------------------
(* C21: list_models of the router returns the merge of the listings of     *)
(* exactly the backends whose listing call succeeded, and the merge of     *)
(* every backend's fallback catalog if and only if every backend's listing *)
(* call failed.                                                            *)

\* a list_models call of the router has returned
ModelsDone == op.kind = "list_models" /\ op.pc = "done"

RECURSIVE MergeFrom(_, _)
\* the tagged listings of the adapter calls k.. that succeeded, in order
MergeFrom(k, answers) ==
    IF k > Len(answers) THEN <<>>
    ELSE (IF answers[k].kind = "ok"
          THEN TaggedCopies(answers[k].data, services[k],
                            service_configs[k].backend_type)
          ELSE <<>>)
         \o MergeFrom(k + 1, answers)

\* every adapter call of the list_models call raised
EveryListingFailed ==
    \A k \in 1..Len(op.answers) : op.answers[k].kind = "raise"

\* the result is the one of _get_combined_fallback_models
IsCombinedFallback(result) == "service" \in DOMAIN result.router

C21_MergeOfSuccessfulListings ==
    ModelsDone =>
        /\ IsCombinedFallback(op.result) <=> EveryListingFailed
        /\ ~EveryListingFailed => op.result.data = MergeFrom(1, op.answers)

----------------------------------------------------------------------------
(* C22: every entry list_models of the router returns is an entry an       *)
(* adapter gave, with id, object, created and owned_by unchanged and with  *)
(* the name and the type of the backend it came from added as tags; the    *)
(* adapter's entry itself is not mutated.                                  *)

\* entry e is entry m of backend service_name, tagged with its name and type
TaggedEntryOf(e, m, service_name) ==
    /\ e.id = m.id
    /\ e.object = m.object
    /\ e.created = m.created
    /\ e.owned_by = m.owned_by
    /\ e.service = service_name
    /\ e.backend_type = ConfigOf(service_name).backend_type

\* the entries the adapter of the backend at position k gave list_models:
\* its answer, or its catalog (stamped with the instant it was built at)
\* when the combined fallback is returned
EntriesGiven(k) ==
    IF IsCombinedFallback(op.result)
    THEN UNION {SeqToSet(FallbackCatalog(ConfigOf(services[k]).backend_type, t)) :
                   t \in 0..now}
    ELSE SeqToSet(op.answers[k].data)

TaggedEntries ==
    /\ \A j \in 1..Len(op.result.data) :
          \E k \in 1..Len(services) : \E m \in EntriesGiven(k) :
              TaggedEntryOf(op.result.data[j], m, services[k])
    /\ op.models = op.answers[Len(op.answers)].data

C22_EntriesTaggedUnchanged == ModelsDone => TaggedEntries

\* the same with every adapter initialised
C22_EntriesTaggedUnchangedAligned == (ModelsDone /\ Aligned) => TaggedEntries

----------------------------------------------------------------------------
(* C23: two list_models calls of the router in a row, with the upstream    *)
(* listings unchanged, return the same merged list, and the second leaves  *)
(* every backend's cached ids as the first left them.                      *)

\* the upstream of an adapter gave answer a2 what it had given answer a1:
\* the same body, or the same failure
SameUpstream(a1, a2) ==
    /\ a1.source = a2.source
    /\ a1.source = "upstream" => a1.data = a2.data

\* in the next state the second of two calls has got, from every adapter it
\* has asked, what the first call got
SecondCallSameUpstream ==
    /\ op'.kind = "list_models"
    /\ op'.previous.kind = "list_models"
    /\ \A k \in 1..Len(op'.answers) :
          SameUpstream(op'.previous.answers[k], op'.answers[k])

C23_ListModelsIdempotent ==
    [][SecondCallSameUpstream =>
          /\ model_cache' = model_cache
          /\ op'.pc = "done" => op'.result.data = op'.previous.result.data]_vars

----------------------------------------------------------------------------
(* C24: for an upstream stream of one JSON data event and the [DONE]       *)
(* event, each followed by a blank line, the transcoder emits exactly two  *)
(* items, the transformed delta frame and the DONE frame, and nothing      *)
(* before, between or after them.                                          *)

\* the lines of  data: {"choices":[{"delta":{"content":"hi"}}]}\n\n
\* data: [DONE]\n\n
TwoEvents ==
    <<DataLine(<<"{hi}">>), <<>>, DataLine(<<"[DONE]">>), <<>>>>

\* the transcoder was given TwoEvents and has ended
TwoEventsEnded ==
    op.kind = "stream" /\ op.lines = TwoEvents /\ op.pc = "ended"

\* the frame of the delta chunk, transformed at instant t
HiFrame(t) ==
    DataFrame([id |-> "chatcmpl-uuid4", object |-> "chat.completion.chunk",
               created |-> t, model |-> MY,
               choices |-> <<[index |-> 0, delta |-> [content |-> "hi"]]>>])

C24_ExactlyTwoItems ==
    TwoEventsEnded => \E t \in 0..now : op.out = <<HiFrame(t), DoneFrame>>

(* C24, amended: the transcoder emits exactly three items: the transformed *)
(* delta frame, a bare newline for the blank line after the data event,    *)
(* then the DONE frame; the blank line after [DONE] is not read.           *)
C24_TwoFramesAndANewline ==
    TwoEventsEnded =>
        /\ \E t \in 0..now : op.out = <<HiFrame(t), Newline, DoneFrame>>
        /\ op.pos = 3

C24_Witness == TwoEventsEnded /\ Len(op.out) = 3

----------------------------------------------------------------------------
(* C25: the adapter's list_models never raises; on a timeout, a connection *)
(* failure or a response that is not 2xx it returns the fallback catalog   *)
(* of its backend type.                                                    *)

\* the adapter's list_models has ended
AdapterListDone == op.kind = "adapter_list_models" /\ op.pc = "done"

\* the upstream timed out, could not be reached, or answered outside 2xx
UpstreamFailed(answer) ==
    answer.kind # "response" \/ answer.status < 200 \/ answer.status > 299

\* the adapter returned the catalog of its type
ReturnedCatalog ==
    /\ op.outcome.kind = "return"
    /\ op.outcome.value.data = FallbackCatalog(op.backend_type, op.at)

C25_ListModelsNeverRaises ==
    AdapterListDone =>
        /\ op.outcome.kind # "raise"
        /\ UpstreamFailed(op.answer) => ReturnedCatalog

\* the part about failures alone
C25_CatalogOnFailure ==
    (AdapterListDone /\ UpstreamFailed(op.answer)) => ReturnedCatalog

----------------------------------------------------------------------------
(* The status queries: _is_rate_limited as chat_completion calls it (the   *)
(* backend at position i against the descriptor at position i), get_stats  *)
(* and get_health, between recorded requests and clock advances. `op`      *)
(* keeps what the last query answered.                                     *)

\* an aligned router, and two whose first descriptor (cerebras without its
\* key) is not followed by an adapter, so that openai sits at position 1
QueryLists ==
    { << Config("openai",   "openai",   TRUE,  1, 1, 1),
         Config("ollama",   "ollama",   FALSE, 2, NoneInt, 60) >>,
      << Config("cerebras", "cerebras", FALSE, 0, NoneInt, 60),
         Config("openai",   "openai",   TRUE,  1, 1, 1) >>,
      << Config("cerebras", "cerebras", FALSE, 0, 2, 3),
         Config("openai",   "openai",   TRUE,  1, 1, 1) >> }

\* max(0, x)
Max0(x) == IF x > 0 THEN x ELSE 0

\* the deques after the loop of get_stats or get_health at instant t: the
\* window at position i is trimmed when the descriptor at i has a rate limit
TrimmedWindows(t) ==
    [n \in DOMAIN request_timestamps |->
        IsRateLimited(request_timestamps[n], service_configs[IndexOf(n)], t).timestamps]

\* the entry of rate_limiting_stats for a backend (window_reset_in left out)
RateLimitingStats(service_name, t) ==
    LET service_config == service_configs[IndexOf(service_name)]
        timestamps == TrimOld(request_timestamps[service_name],
                              t - service_config.rate_limit_window)
        current_requests == Len(timestamps)
    IN IF HasRateLimit(service_config)
       THEN [rate_limit |-> [none |-> FALSE,
                             requests |-> service_config.rate_limit_requests,
                             window |-> service_config.rate_limit_window],
             current_requests |-> current_requests,
             remaining_quota |->
                 [unlimited |-> FALSE,
                  quota |-> Max0(service_config.rate_limit_requests
                                     - current_requests)],
             is_rate_limited |->
                 current_requests >= service_config.rate_limit_requests]
       ELSE [rate_limit |-> [none |-> TRUE, requests |-> 0, window |-> 0],
             current_requests |-> 0,
             remaining_quota |-> [unlimited |-> TRUE, quota |-> 0],
             is_rate_limited |-> FALSE]

\* what get_stats returns at instant t (the two percentages left out)
StatsResult(t) ==
    [total_requests |-> request_count,
     total_failovers |-> failover_count,
     total_rate_limit_skips |-> rate_limit_skips,
     configured_services |-> Len(services),
     service_stats |-> service_stats,
     service_order |-> services,
     rate_limiting |-> [n \in SeqToSet(services) |-> RateLimitingStats(n, t)]]

\* the status get_health gives a backend with these counters:
\* failures / total_requests < 0.1, < 0.5, or neither, in integers
ServiceStatus_TenIsHealthy(stats) ==
    IF stats.requests = 0 THEN "unknown"
    ELSE IF 10 * stats.failures <= stats.requests THEN "healthy"
    ELSE IF 2 * stats.failures < stats.requests THEN "degraded"
    ELSE "unhealthy"

ServiceStatus_HalfIsDegraded(stats) ==
    IF stats.requests = 0 THEN "unknown"
    ELSE IF 10 * stats.failures < stats.requests THEN "healthy"
    ELSE IF 2 * stats.failures <= stats.requests THEN "degraded"
    ELSE "unhealthy"

ServiceStatus(stats) ==
    IF stats.requests = 0 THEN "unknown"
    ELSE IF 10 * stats.failures < stats.requests THEN "healthy"
    ELSE IF 2 * stats.failures < stats.requests THEN "degraded"
    ELSE "unhealthy"

\* faulty variant: one unhealthy backend makes the router unhealthy
OverallStatus_AnyIsUnhealthy(statuses) ==
    IF \E n \in DOMAIN statuses : statuses[n] = "unhealthy" THEN "unhealthy"
    ELSE "healthy"

\* overall_status from the statuses of the backends: unhealthy_count is
\* compared with len(self.services), then with 0
OverallStatus(statuses) ==
    LET unhealthy_count ==
            Cardinality({n \in DOMAIN statuses : statuses[n] = "unhealthy"})
    IN IF unhealthy_count = Len(services) THEN "unhealthy"
       ELSE IF unhealthy_count > 0 THEN "degraded"
       ELSE "healthy"

\* health_info of a backend at instant t (base_url and the rounded
\* failure_rate left out); backend_type and has_api_key are the adapter's own
HealthInfo(service_name, t) ==
    LET stats == service_stats[service_name]
        service_config == service_configs[IndexOf(service_name)]
    IN [status |-> ServiceStatus(stats),
        backend_type |-> ConfigOf(service_name).backend_type,
        has_api_key |-> ConfigOf(service_name).has_key,
        requests |-> stats.requests,
        failures |-> stats.failures,
        rate_limited_events |-> stats.rate_limited,
        is_currently_rate_limited |->
            IsRateLimited(request_timestamps[service_name],
                          service_config, t).limited,
        rate_limit_config |->
            IF HasRateLimit(service_config)
            THEN [set |-> TRUE,
                  max_requests |-> service_config.rate_limit_requests,
                  window_seconds |-> service_config.rate_limit_window]
            ELSE [set |-> FALSE, max_requests |-> 0, window_seconds |-> 0]]

\* what get_health returns at instant t
HealthResult(t) ==
    [overall_status |->
         OverallStatus([n \in SeqToSet(services) |->
                            ServiceStatus(service_stats[n])]),
     services |-> [n \in SeqToSet(services) |-> HealthInfo(n, t)]]

\* the number of timestamps a query counted for each backend: len(timestamps)
\* after the trim where the descriptor at its position has a rate limit,
\* none where it has not
CountsUsed(t) ==
    [n \in SeqToSet(services) |->
        IF HasRateLimit(service_configs[IndexOf(n)])
        THEN Len(TrimmedWindows(t)[n]) ELSE 0]

\* _is_rate_limited(services[i], service_configs[i]) at the present instant
IsLimitedCall(i) ==
    /\ request_timestamps' =
          [request_timestamps EXCEPT ![services[i]] =
              IsRateLimited(@, service_configs[i], now).timestamps]
    /\ op' = [kind |-> "is_rate_limited", at |-> now, on |-> {services[i]},
              counts |-> CountsUsed(now),
              result |-> IsRateLimited(request_timestamps[services[i]],
                                       service_configs[i], now).limited]
    /\ UNCHANGED <<service_configs, services, request_count, failover_count,
                   rate_limit_skips, service_stats, model_cache,
                   cache_last_updated, now, req, started, recorded>>

\* get_stats() at the present instant
GetStats ==
    /\ request_timestamps' = TrimmedWindows(now)
    /\ op' = [kind |-> "get_stats", at |-> now, on |-> SeqToSet(services),
              counts |-> CountsUsed(now), result |-> StatsResult(now)]
    /\ UNCHANGED <<service_configs, services, request_count, failover_count,
                   rate_limit_skips, service_stats, model_cache,
                   cache_last_updated, now, req, started, recorded>>

\* get_health() at the present instant
GetHealth ==
    /\ request_timestamps' = TrimmedWindows(now)
    /\ op' = [kind |-> "get_health", at |-> now, on |-> SeqToSet(services),
              counts |-> CountsUsed(now), result |-> HealthResult(now)]
    /\ UNCHANGED <<service_configs, services, request_count, failover_count,
                   rate_limit_skips, service_stats, model_cache,
                   cache_last_updated, now, req, started, recorded>>

NextQuery ==
    \/ \E n \in SeqToSet(services) : RLRecord(n)
    \/ \E i \in 1..Len(services) : IsLimitedCall(i)
    \/ GetStats
    \/ GetHealth
    \/ Tick({1, 2})

SpecQuery == InitWith(QueryLists) /\ [][NextQuery]_vars

----------------------------------------------------------------------------
(* C26: immediately after an isLimited, getStats or getHealth query at     *)
(* time t on a backend with a policy, the backend's stored window holds no *)
(* timestamp older than t - window, and the count used for the answer      *)
(* includes no such timestamp.                                             *)

\* the timestamps of a window that are not older than t - window
NotOlder(timestamps, window, t) ==
    {k \in 1..Len(timestamps) : timestamps[k] >= t - window}

\* this step is a query that covers the backend
QueryOn(service_name) ==
    \/ IsLimitedCall(IndexOf(service_name))
    \/ GetStats
    \/ GetHealth

\* after the step, the window of the backend has no timestamp older than
\* the window of the given descriptor, and the count the query used is no
\* more than the number of timestamps that were not older
WindowFresh(service_name, cfg) ==
    /\ \A k \in 1..Len(request_timestamps'[service_name]) :
          request_timestamps'[service_name][k] >= now - cfg.rate_limit_window
    /\ op'.counts[service_name] <=
          Cardinality(NotOlder(request_timestamps[service_name],
                               cfg.rate_limit_window, now))

C26_QueryLeavesFreshWindow ==
    [][\A n \in SeqToSet(services) :
          (QueryOn(n) /\ HasRateLimit(ConfigOf(n))) => WindowFresh(n, ConfigOf(n))]_vars

\* the same with the descriptor the router holds at the backend's position
C26_QueryLeavesFreshWindowPositional ==
    [][\A n \in SeqToSet(services) :
          (QueryOn(n) /\ HasRateLimit(service_configs[IndexOf(n)]))
              => WindowFresh(n, service_configs[IndexOf(n)])]_vars

----------------------------------------------------------------------------
(* get_health over the counters a router can have accumulated: the         *)
(* classification is a function of service_stats, which Init draws.        *)

\* a router of two backends and a router of one, without rate limits
HealthLists ==
    { << Config("openai", "openai", TRUE,  1, NoneInt, 60),
         Config("ollama", "ollama", FALSE, 2, NoneInt, 60) >>,
      << Config("ollama", "ollama", FALSE, 1, NoneInt, 60) >> }

\* request and failure counts of a backend: none, few, and the counts at
\* which a tenth and a half are whole numbers
HealthRequests == {0, 1, 2, 10, 20}
HealthFailures == {0, 1, 2, 4, 5, 9, 10, 20}

\* stats of a backend that was invoked requests times and failed failures
\* times
HealthStats ==
    {st \in {[requests |-> r, failures |-> f, rate_limited |-> 0] :
                 r \in HealthRequests, f \in HealthFailures} :
        st.failures <= st.requests}

\* a deque of n timestamps, all of instant t
Repeated(n, t) == [k \in 1..n |-> t]

RECURSIVE TotalRequests(_, _)
\* the requests of the backends of a list, summed
TotalRequests(names, stats) ==
    IF names = <<>> THEN 0
    ELSE stats[Head(names)].requests + TotalRequests(Tail(names), stats)

\* each backend has been invoked at instant 0 by calls that tried that
\* backend alone (a failure of the first of two backends leaves the second
\* untried and counts as a failover); no status query has run
InitHealth ==
    /\ \E supplied \in HealthLists :
          /\ service_configs = SortedByPriority(supplied)
          /\ services = InitialisedNames(SortedByPriority(supplied))
    /\ service_stats \in [SeqToSet(services) -> HealthStats]
    /\ request_count = TotalRequests(services, service_stats)
    /\ failover_count = IF Len(services) > 1
                          THEN service_stats[services[1]].failures ELSE 0
    /\ rate_limit_skips = 0
    /\ request_timestamps =
          [n \in SeqToSet(services) |-> Repeated(service_stats[n].requests, 0)]
    /\ recorded = request_timestamps
    /\ model_cache = <<>>
    /\ cache_last_updated = <<>>
    /\ now = 0
    /\ req = [r \in Slots |-> IdleCall]
    /\ started = 0
    /\ op = NoOp

NextHealth ==
    \/ GetHealth
    \/ GetStats
    \/ Tick({1})

SpecHealth == InitHealth /\ [][NextHealth]_vars

----------------------------------------------------------------------------
(* C27: get_health classifies a backend as unknown iff it has no recorded  *)
(* request; otherwise healthy iff failures/requests < 10%, degraded iff    *)
(* 10% <= failures/requests < 50%, unhealthy iff failures/requests >= 50%. *)

\* get_health has answered
HealthAnswered == op.kind = "get_health"

\* the status the answer gives a backend
StatusOf(service_name) == op.result.services[service_name].status

C27_Classification ==
    HealthAnswered =>
        \A n \in SeqToSet(services) :
            LET r == service_stats[n].requests
                f == service_stats[n].failures
            IN /\ (StatusOf(n) = "unknown") <=> (r = 0)
               /\ r > 0 =>
                    /\ (StatusOf(n) = "healthy") <=> (10 * f < r)
                    /\ (StatusOf(n) = "degraded") <=> (10 * f >= r /\ 2 * f < r)
                    /\ (StatusOf(n) = "unhealthy") <=> (2 * f >= r)

\* one backend failed exactly a tenth of its requests and is degraded, the
\* other exactly half and is unhealthy
C27_Witness ==
    /\ HealthAnswered
    /\ \E n, m \in SeqToSet(services) :
          /\ service_stats[n].requests = 10 /\ service_stats[n].failures = 1
          /\ StatusOf(n) = "degraded"
          /\ service_stats[m].requests = 20 /\ service_stats[m].failures = 10
          /\ StatusOf(m) = "unhealthy"

----------------------------------------------------------------------------
(* C28: the overall status of get_health is unhealthy iff every backend is *)
(* classified unhealthy; otherwise degraded iff at least one backend is    *)
(* classified unhealthy; otherwise healthy. A router without recorded      *)
(* requests reports healthy.                                               *)

AllUnhealthy == \A n \in SeqToSet(services) : StatusOf(n) = "unhealthy"
SomeUnhealthy == \E n \in SeqToSet(services) : StatusOf(n) = "unhealthy"

C28_OverallStatus ==
    HealthAnswered =>
        /\ (op.result.overall_status = "unhealthy") <=> AllUnhealthy
        /\ ~AllUnhealthy =>
              /\ (op.result.overall_status = "degraded") <=> SomeUnhealthy
              /\ ~SomeUnhealthy => op.result.overall_status = "healthy"
        /\ (\A n \in SeqToSet(services) : service_stats[n].requests = 0)
              => op.result.overall_status = "healthy"

\* two backends, one unhealthy and one healthy: the router is degraded
C28_Witness ==
    /\ HealthAnswered
    /\ Len(services) = 2
    /\ SomeUnhealthy /\ ~AllUnhealthy
    /\ \E n \in SeqToSet(services) : StatusOf(n) = "healthy"
    /\ op.result.overall_status = "degraded"

----------------------------------------------------------------------------
(* C29: between two reset_stats calls every counter (total requests,       *)
(* failovers, rate-limit skips, and each backend's requests, failures and  *)
(* rate-limited events) is non-negative and never decreases.               *)

CountersNonNegative ==
    /\ request_count >= 0
    /\ failover_count >= 0
    /\ rate_limit_skips >= 0
    /\ \A n \in SeqToSet(services) :
          /\ service_stats[n].requests >= 0
          /\ service_stats[n].failures >= 0
          /\ service_stats[n].rate_limited >= 0

\* no counter is smaller after the step than before it
CountersNonDecreasing ==
    /\ request_count' >= request_count
    /\ failover_count' >= failover_count
    /\ rate_limit_skips' >= rate_limit_skips
    /\ \A n \in SeqToSet(services) :
          /\ service_stats'[n].requests >= service_stats[n].requests
          /\ service_stats'[n].failures >= service_stats[n].failures
          /\ service_stats'[n].rate_limited >= service_stats[n].rate_limited

C29_CountersMonotone ==
    /\ []CountersNonNegative
    /\ [][ResetStats \/ CountersNonDecreasing]_vars

\* a reset ran between two calls and the counters have grown again since:
\* a request, a failover, a failure and a rate-limit skip are counted
C29_Witness ==
    /\ started = 2 /\ request_count = 1
    /\ failover_count >= 1
    /\ rate_limit_skips >= 1
    /\ \E n \in SeqToSet(services) :
          service_stats[n].failures >= 1 /\ service_stats[n].rate_limited >= 1

----------------------------------------------------------------------------
(* C30: every failed backend attempt increments the global failover        *)
(* counter by exactly one, including the failure of the last backend that  *)
(* could be tried.                                                         *)

\* the step resumes call r with a failure of the backend it awaited
FailureStep(r) ==
    /\ req[r].pc = "invoking"
    /\ StepOf(r)
    /\ req'[r].last_exception.service = services[req[r].selected_index]
    /\ service_stats'[services[req[r].selected_index]].failures
          = service_stats[services[req[r].selected_index]].failures + 1

\* the failure leaves some backend outside attempted_services
LeavesABackend(r) ==
    Cardinality(req[r].attempted \cup {services[req[r].selected_index]})
        < Len(services)

\* invocations of a call that have failed: all but one that is awaited or
\* that answered
FailedAttempts(q) ==
    Len(q.invoked) - (IF q.pc = "invoking"
                         \/ (q.pc = "done" /\ q.result.kind = "response")
                      THEN 1 ELSE 0)

\* the call ended with a failure that completed attempted_services: no pass
\* of the loop followed the last invocation
EndedByLastFailure(q) ==
    /\ q.pc = "done"
    /\ FailedAttempts(q) > 0
    /\ FailedAttempts(q) = Len(q.invoked)
    /\ ~LastRoundSelectedNone(q)

\* as stated: one increment for every failure
C30_EveryFailureCounts ==
    /\ [](\A r \in Slots : req[r].failovers = FailedAttempts(req[r]))
    /\ [][\A r \in Slots :
             FailureStep(r) => failover_count' = failover_count + 1]_vars

\* a failed attempt that leaves a backend outside attempted_services
\* increments failover_count by exactly one; the failure that completes
\* attempted_services, after which the loop ends, leaves it unchanged
C30_FailureCountsUnlessLast ==
    /\ [](\A r \in Slots :
             req[r].failovers = FailedAttempts(req[r])
                 - (IF EndedByLastFailure(req[r]) THEN 1 ELSE 0))
    /\ [][\A r \in Slots :
             FailureStep(r) =>
                 failover_count' = failover_count
                     + (IF LeavesABackend(r) THEN 1 ELSE 0)]_vars

\* a call that awaited its backends has failed on all three: two failures
\* were counted as failovers, the third was not
C30_Witness ==
    \E r \in Slots :
        /\ ~req[r].stream
        /\ EndedByLastFailure(req[r])
        /\ FailedAttempts(req[r]) = 3
        /\ req[r].failovers = 2
        /\ failover_count = 2

----------------------------------------------------------------------------
(* C31: a backend whose populated capability cache contains none of the    *)
(* models of the chain is added to attempted without being invoked, with   *)
(* its request counter and rate window unchanged; and every invocation a   *)
(* request makes uses a model that belongs to the chain and that the cache *)
(* of the backend supported (or had no entry for) at selection time.       *)

\* the cache has an entry for the backend and the entry holds no option of
\* the chain
NoModelOfChain(cache, service_name, model_options) ==
    /\ service_name \in DOMAIN cache
    /\ \A k \in 1..Len(model_options) :
          model_options[k] \notin SeqToSet(cache[service_name])

\* positions the last scan of a call went over without selecting them
PassedByLastScan(q) ==
    IF q.pc = "invoking" THEN 1..(q.selected_index - 1) ELSE 1..Len(services)

\* passes of the loop call r makes in this step
RoundsInStep(r) ==
    req'[r].rounds - (IF req[r].pc = "invoking" THEN req[r].rounds ELSE 0)

\* the clock as the last scan of this step read it
LastScanClock(r) == IF RoundsInStep(r) > 1 THEN now' ELSE now

\* backends the last scan of this step came to that were not in attempted
\* before the step and have none of the models of the chain
Disqualified(r) ==
    {n \in {services[i] : i \in PassedByLastScan(req'[r])} :
        /\ n \notin AttemptedAtRound(r)
        /\ NoModelOfChain(model_cache', n, req'[r].model_options)}

\* the model sent with every invocation of this step is an option of the
\* chain that the backend supports
InvocationsUseSupportedOption(r) ==
    (Len(req'[r].invoked) > InvokedBefore(r)) =>
        /\ req'[r].selected_model \in SeqToSet(req'[r].model_options)
        /\ Supports(model_cache', services[req'[r].selected_index],
                    req'[r].selected_model)

\* as stated: every such backend ends in attempted, window untouched
C31_DisqualifiedIsAttempted ==
    [][\A r \in Slots :
          RoundStep(r) =>
             /\ \A n \in Disqualified(r) :
                   /\ n \in req'[r].attempted
                   /\ n \notin NewlyInvoked(r)
                   /\ service_stats'[n].requests = service_stats[n].requests
                   /\ request_timestamps'[n] = request_timestamps[n]
             /\ InvocationsUseSupportedOption(r)]_vars

\* such a backend is added to attempted if the scan finds it not
\* rate-limited, and is skipped without being added if the scan finds it
\* rate-limited; in both cases it is not invoked, its request counter is
\* unchanged and no request is recorded in its window, from which the scan
\* may drop expired timestamps
C31_DisqualifiedUnlessLimitedIsAttempted ==
    [][\A r \in Slots :
          RoundStep(r) =>
             /\ \A n \in Disqualified(r) :
                   /\ (n \in req'[r].attempted)
                         <=> ~RouterLimited(n, request_timestamps, LastScanClock(r))
                   /\ n \notin NewlyInvoked(r)
                   /\ service_stats'[n].requests = service_stats[n].requests
                   /\ recorded'[n] = recorded[n]
                   /\ IsSuffix(request_timestamps'[n], request_timestamps[n])
             /\ InvocationsUseSupportedOption(r)]_vars

\* a call was answered with a failure by a backend that was sent an option
\* its cache holds, then went over a backend with none of the models of the
\* chain: that one is in attempted, was not invoked, has no request counted
C31_Witness ==
    \E r \in Slots : \E n \in SeqToSet(services) :
        /\ req[r].pc = "done"
        /\ Len(req[r].invoked) = 1
        /\ req[r].invoked[1] \in DOMAIN model_cache
        /\ req[r].selected_model \in SeqToSet(model_cache[req[r].invoked[1]])
        /\ NoModelOfChain(model_cache, n, req[r].model_options)
        /\ n \in req[r].attempted
        /\ n \notin SeqToSet(req[r].invoked)
        /\ service_stats[n].requests = 0

----------------------------------------------------------------------------
(* The router with a rate window short enough to expire while a request    *)
(* waits for a backend: every adapter initialised, the first backend       *)
(* allowed one request per second.                                         *)

ExpiryLists ==
    { << Config("openai",   "openai",   TRUE,  1, NoneInt, 60),
         Config("ollama",   "ollama",   FALSE, 2, NoneInt, 60),
         Config("cerebras", "cerebras", TRUE,  0, 1, 1) >> }

SpecExpiry == InitWith(ExpiryLists) /\ [][Next]_vars

----------------------------------------------------------------------------
(* C32: a backend skipped as rate-limited in one selection round is not    *)
(* added to attempted, and if its window has expired by a later round of   *)
(* the same request (after another backend failed) it is selected and      *)
(* invoked in that round ahead of lower-priority backends.                 *)

\* backends the last scan of this step skipped as rate-limited
SkippedAsLimited(r) ==
    {n \in {services[i] : i \in PassedByLastScan(req'[r])} :
        /\ n \notin AttemptedAtRound(r)
        /\ RouterLimited(n, request_timestamps, LastScanClock(r))}

\* call r waits for a backend that was selected by a scan which skipped n
\* as rate-limited: n comes before the selected backend and is not in
\* attempted
SkippedEarlier(r, n) ==
    /\ req[r].pc = "invoking"
    /\ n \notin req[r].attempted
    /\ IndexOf(n) < req[r].selected_index

\* the cache of the backend holds an option of the chain, or has no entry
HasOption(r, n) ==
    \E k \in 1..Len(req[r].model_options) :
        Supports(model_cache, n, req[r].model_options[k])

\* backends before n that the round after this failure can select
SelectableBefore(r, n) ==
    {m \in SeqToSet(services) :
        /\ IndexOf(m) < IndexOf(n)
        /\ m \notin AttemptedAtRound(r)
        /\ ~RouterLimited(m, request_timestamps, now)
        /\ HasOption(r, m)}

\* this step invokes n, and no other backend before it
InvokedNext(r, n) ==
    /\ Len(req'[r].invoked) > InvokedBefore(r)
    /\ req'[r].invoked[InvokedBefore(r) + 1] = n

\* a skipped backend stays outside attempted
SkipLeavesOutsideAttempted ==
    [][\A r \in Slots :
          RoundStep(r) =>
             \A n \in SkippedAsLimited(r) : n \notin req'[r].attempted]_vars

\* as stated: the round after the failure invokes every skipped backend it
\* finds no longer rate-limited
C32_ExpiredSkippedIsInvoked ==
    /\ SkipLeavesOutsideAttempted
    /\ [][\A r \in Slots : \A n \in SeqToSet(services) :
             (FailureStep(r) /\ SkippedEarlier(r, n)
                  /\ ~RouterLimited(n, request_timestamps, now))
                 => InvokedNext(r, n)]_vars

\* the round after the failure invokes the skipped backend it finds no
\* longer rate-limited if the backend has an option of the chain and no
\* backend before it can be selected; without an option the backend is put
\* in attempted and not invoked; with a selectable backend before it, that
\* one is invoked and the skipped backend stays outside attempted
C32_ExpiredSkippedIsScannedAgain ==
    /\ SkipLeavesOutsideAttempted
    /\ [][\A r \in Slots : \A n \in SeqToSet(services) :
             (FailureStep(r) /\ SkippedEarlier(r, n)
                  /\ ~RouterLimited(n, request_timestamps, now))
                 => IF SelectableBefore(r, n) # {}
                    THEN /\ \E m \in SelectableBefore(r, n) : InvokedNext(r, m)
                         /\ n \notin req'[r].attempted
                    ELSE IF HasOption(r, n)
                    THEN InvokedNext(r, n)
                    ELSE /\ n \in req'[r].attempted
                         /\ n \notin NewlyInvoked(r)]_vars

\* the first backend was skipped as rate-limited, the second was invoked and
\* failed after the window of the first had expired, and the call now waits
\* for the first backend, with the third still untried
C32_Witness ==
    \E r \in Slots :
        /\ req[r].pc = "invoking"
        /\ Len(services) = 3
        /\ req[r].invoked = <<services[2], services[1]>>
        /\ service_stats[services[1]].rate_limited > 0
        /\ services[3] \notin req[r].attempted

----------------------------------------------------------------------------
(* C33: the routing metadata of a successful response has attempt = size   *)
(* of attempted at selection + 1, counting backends disqualified for their *)
(* models as well as failed ones, requested_model = the original request   *)
(* string, actual_model = the model sent to the backend, model_options =   *)
(* the whole parsed chain; the request object of the caller keeps its      *)
(* original model string.                                                  *)

\* the call was answered by a backend
Answered(q) == q.pc = "done" /\ q.result.kind = "response"

\* backends of the call that were invoked and failed
FailedBackends(q) == {q.invoked[k] : k \in 1..(Len(q.invoked) - 1)}

C33_RoutingMetadata ==
    \A r \in Slots :
        /\ req[r].pc # "idle" => req[r].model \in ModelStrings
        /\ Answered(req[r]) =>
              /\ req[r].result.attempt = Cardinality(req[r].attempted) + 1
              /\ FailedBackends(req[r]) \subseteq req[r].attempted
              /\ req[r].result.service = req[r].invoked[Len(req[r].invoked)]
              /\ req[r].result.service \notin req[r].attempted
              /\ req[r].result.requested_model = req[r].model
              /\ req[r].result.requested_model \in ModelStrings
              /\ req[r].result.actual_model = req[r].selected_model
              /\ req[r].result.actual_model
                    \in SeqToSet(ParseModelOptions(req[r].model))
              /\ req[r].result.model_options = ParseModelOptions(req[r].model)

\* a request for a chain of two options was answered at the second attempt:
\* attempted holds one backend, the metadata names the string as sent and a
\* single option as the model used
C33_Witness ==
    \E r \in Slots :
        /\ Answered(req[r])
        /\ req[r].result.attempt = 2
        /\ Len(req[r].result.model_options) = 2
        /\ req[r].result.requested_model # req[r].result.actual_model

\* a request was answered at the second attempt by the first backend it
\* invoked: the backend before it was disqualified for its models
C33_WitnessDisqualified ==
    \E r \in Slots :
        /\ Answered(req[r])
        /\ req[r].result.attempt = 2
        /\ Len(req[r].invoked) = 1

----------------------------------------------------------------------------
(* C34: once the transcoder has emitted the DONE frame it emits nothing    *)
(* further and ends, even if the upstream sends more lines; and if the     *)
(* upstream closes without sending [DONE], the transcoder ends without     *)
(* emitting a DONE frame.                                                  *)

\* the transcoder is at work on a stream
Streaming == op.kind = "stream"

\* positions of the output that hold the DONE frame
DonePositions == {k \in 1..Len(op.out) : op.out[k] = DoneFrame}

\* the line is "data: [DONE]", whitespace around it aside
IsDoneLine(chunk) == Strip(chunk) = DataLine(<<"[DONE]">>)

\* the lines the transcoder has taken from the upstream
LinesRead == SubSeq(op.lines, 1, op.pos)

C34_DoneEndsTheStream ==
    /\ [](Streaming =>
            /\ DonePositions # {} =>
                  /\ DonePositions = {Len(op.out)}
                  /\ op.pc = "ended"
            /\ (op.pc # "reading"
                  /\ \A k \in 1..Len(op.lines) : ~IsDoneLine(op.lines[k]))
                  => DonePositions = {})
    /\ [][(Streaming /\ DonePositions # {}) => op' = op]_vars

\* the DONE frame is out, the transcoder has ended, and lines of the
\* upstream are left unread
C34_Witness ==
    /\ Streaming
    /\ op.pc = "ended"
    /\ DonePositions = {Len(op.out)}
    /\ Len(op.out) > 1
    /\ op.pos < Len(op.lines)

\* the upstream closed after frames were forwarded and without [DONE]: the
\* transcoder has ended and no DONE frame is out
C34_WitnessClosed ==
    /\ Streaming
    /\ op.pc = "ended"
    /\ op.pos = Len(op.lines)
    /\ Len(op.out) > 1
    /\ DonePositions = {}

----------------------------------------------------------------------------
(* C35: a data line whose payload is not valid JSON produces no output     *)
(* frame and no error, and all later upstream lines are still processed    *)
(* and emitted as if the bad line had not been there.                      *)

\* the line is a data line, not the end marker, whose payload json.loads
\* rejects
IsBadJsonLine(chunk) ==
    /\ StartsWith(Strip(chunk), <<"data:", " ">>)
    /\ ~IsDoneLine(chunk)
    /\ JsonLoads(SubSeq(Strip(chunk), 3, Len(Strip(chunk)))).kind
          = "JSONDecodeError"

\* the stream without its lines of bad JSON
RECURSIVE WithoutBadJson(_)
WithoutBadJson(lines) ==
    IF lines = <<>> THEN <<>>
    ELSE (IF IsBadJsonLine(Head(lines)) THEN <<>> ELSE <<Head(lines)>>)
         \o WithoutBadJson(Tail(lines))

\* what the transcoder has emitted after the lines, all read at instant t
RECURSIVE Emitted(_, _, _)
Emitted(tr, lines, t) ==
    IF lines = <<>> \/ tr.pc # "reading" THEN tr
    ELSE Emitted(OnLine(tr, Head(lines), t), Tail(lines), t)

\* the transcoder before its first line
Fresh == [op EXCEPT !.pos = 0, !.out = <<>>, !.pc = "reading"]

\* the step that takes a line of bad JSON changes neither the output nor
\* the state of the transcoder; and when no time has passed, the output
\* after the lines read is the output for those lines without the bad ones
C35_BadJsonIsDropped ==
    /\ [][(StreamLine /\ op.pos < Len(op.lines)
              /\ IsBadJsonLine(op.lines[op.pos + 1]))
             => /\ op'.out = op.out
                /\ op'.pc = "reading"
                /\ op'.pos = op.pos + 1]_vars
    /\ []((Streaming /\ now = 0) =>
             /\ op.out = Emitted(Fresh, WithoutBadJson(LinesRead), 0).out
             /\ (op.pc = "raised")
                   <=> (Emitted(Fresh, WithoutBadJson(LinesRead), 0).pc = "raised"))

\* a line of bad JSON was read, and the chunk and the end marker that came
\* after it are out
C35_Witness ==
    /\ Streaming
    /\ op.pc = "ended"
    /\ Len(op.lines) = 3
    /\ IsBadJsonLine(op.lines[1])
    /\ Len(op.out) = 2
    /\ op.out[1].frame = "data"
    /\ op.out[2] = DoneFrame

----------------------------------------------------------------------------
(* C36: for an upstream response that is not 2xx the adapter raises an     *)
(* upstream-API error carrying the upstream status and a message taken     *)
(* from the body's error.message when present, otherwise from the body's   *)
(* top-level message, otherwise from the raw body.                         *)

\* the adapter's chat_completion has ended on a response outside 2xx
AdapterChatFailed ==
    /\ op.kind = "adapter_chat" /\ op.pc = "done"
    /\ op.answer.kind = "response"
    /\ (op.answer.status < 200 \/ op.answer.status > 299)

\* sub occurs in s
Contains(s, sub) ==
    \E i \in 0..(Len(s) - Len(sub)) : SubSeq(s, i + 1, i + Len(sub)) = sub

\* the text the message is to be taken from
ExpectedMessage(body) ==
    IF body.kind = "object" /\ body.error.kind = "object"
          /\ body.error.message.kind = "str"
    THEN body.error.message.text
    ELSE IF body.kind = "object" /\ body.message.kind = "str"
    THEN body.message.text
    ELSE body.text

\* the error is an upstream-API error with the status of the upstream
CarriesStatus ==
    /\ op.outcome.kind = "raise"
    /\ op.outcome.type = "api_error"
    /\ op.outcome.status_code = op.answer.status
    /\ op.outcome.backend = op.backend_type

C36_MessagePrecedence ==
    AdapterChatFailed =>
        /\ CarriesStatus
        /\ Contains(op.outcome.message, ExpectedMessage(op.answer.body))

\* the part that holds: the status, and error.message when it is a string
\* that is not empty
C36_StatusAndErrorMessage ==
    AdapterChatFailed =>
        /\ CarriesStatus
        /\ (/\ op.answer.body.kind = "object"
            /\ op.answer.body.error.kind = "object"
            /\ op.answer.body.error.message.kind = "str"
            /\ op.answer.body.error.message.text # <<>>)
              => op.outcome.message = <<"[", op.backend_type, "] ">>
                                         \o op.answer.body.error.message.text

\* a body with a top-level message and no error member has been answered
C36_Witness ==
    /\ AdapterChatFailed
    /\ op.answer.body.kind = "object"
    /\ op.answer.body.error.kind = "absent"
    /\ op.answer.body.message.kind = "str"
    /\ op.outcome.message = <<"[", op.backend_type, "] ", "Unknown error">>

----------------------------------------------------------------------------
(* C37: with chat_completion calls interleaved in any way and no reset,    *)
(* for every backend with a policy and every instant t the attempts        *)
(* recorded for it with a timestamp in (t - window, t] are at most         *)
(* maxRequests of them.                                                    *)

\* attempts recorded for the backend in (t - window, t]
RecordedWithin(service_name, window, t) ==
    {k \in 1..Len(recorded[service_name]) :
        /\ recorded[service_name][k] > t - window
        /\ recorded[service_name][k] <= t}

\* no window of the backend's own policy holds more than its maximum
WindowsBounded(service_name) ==
    LET cfg == ConfigOf(service_name)
    IN HasRateLimit(cfg) =>
          \A t \in 0..now :
              Cardinality(RecordedWithin(service_name, cfg.rate_limit_window, t))
                  <= cfg.rate_limit_requests

C37_WindowNeverExceeded ==
    \A n \in SeqToSet(services) : WindowsBounded(n)

\* the same, for routers whose adapters all initialised
C37_WindowNeverExceededAligned ==
    Aligned => \A n \in SeqToSet(services) : WindowsBounded(n)

\* two calls overlap, one waits for a backend with a policy whose window is
\* full, and the other has passed that backend by for the next one
C37_Witness ==
    \E n \in SeqToSet(services), a, b \in Slots :
        /\ Aligned /\ HasRateLimit(ConfigOf(n))
        /\ Cardinality(RecordedWithin(n, ConfigOf(n).rate_limit_window, now))
              = ConfigOf(n).rate_limit_requests
        /\ req[a].pc = "invoking" /\ req[a].invoked = <<n>>
        /\ req[b].pc = "invoking" /\ Len(req[b].invoked) = 1
        /\ req[b].invoked[1] # n
        /\ service_stats[n].rate_limited > 0

----------------------------------------------------------------------------
(* C38: at every moment each backend's failure counter is at most its      *)
(* request counter, also when reset_stats runs while a chat request is     *)
(* suspended waiting for that backend's response.                          *)

C38_FailuresAtMostRequests ==
    \A n \in SeqToSet(services) :
        service_stats[n].failures <= service_stats[n].requests

\* a backend has failed after a reset that ran while its call was awaited
C38_Witness ==
    \E r \in Slots, n \in SeqToSet(services) :
        /\ req[r].invoked # <<>> /\ req[r].invoked[1] = n
        /\ service_stats[n].failures = 1
        /\ service_stats[n].requests = 0

----------------------------------------------------------------------------
(* C39: at every position the adapter list and the descriptor list hold    *)
(* the same backend (services[i] has the name of service_configs[i]), so   *)
(* that each backend is checked against its own policy and reported with   *)
(* its own type, also when a configured backend failed to initialise and   *)
(* was left out of the adapter list.                                       *)

\* the descriptor the router reads for the backend at position i
PositionalConfig(i) == service_configs[i]

C39_SamePositionSameBackend ==
    \A i \in 1..Len(services) :
        /\ PositionalConfig(i).name = services[i]
        /\ PositionalConfig(i).rate_limit_requests
              = ConfigOf(services[i]).rate_limit_requests
        /\ PositionalConfig(i).rate_limit_window
              = ConfigOf(services[i]).rate_limit_window
        /\ PositionalConfig(i).backend_type = ConfigOf(services[i]).backend_type

\* a backend has been called after a scan that read another backend's
\* descriptor for it
C39_Witness ==
    /\ ~Aligned
    /\ \E r \in Slots :
          /\ req[r].pc = "invoking"
          /\ req[r].invoked # <<>>
          /\ PositionalConfig(IndexOf(req[r].invoked[1])).name # req[r].invoked[1]

----------------------------------------------------------------------------
(* C40: if no rate window expires between the selection scan and the       *)
(* all-rate-limited check of the same round, chat_completion never raises  *)
(* the generic 503 service_unavailable error: a call that cannot select a  *)
(* backend ends in the 429 rate-limit error, or, when the loop ends        *)
(* because the last remaining backend has just failed, in that backend's   *)
(* failure.                                                                *)

\* this step ends call r with an error
EndsInError(r) ==
    /\ StepOf(r)
    /\ req'[r].pc = "done"
    /\ req'[r].result.kind # "response"

\* a backend the last scan of this step skipped as rate-limited is no longer
\* limited when the check that follows the scan reads the clock
WindowExpired(r) ==
    /\ RoundsInStep(r) = 1
    /\ \E n \in SeqToSet(services) \ req'[r].attempted :
          /\ RouterLimited(n, request_timestamps, now)
          /\ ~RouterLimited(n, request_timestamps, now')

\* the call ended in the failure of the backend it called last, every
\* backend being in attempted
EndedInLastFailure(q) ==
    /\ ~LastRoundSelectedNone(q)
    /\ q.invoked # <<>>
    /\ q.attempted = SeqToSet(services)
    /\ q.result = q.last_exception
    /\ q.result.service = q.invoked[Len(q.invoked)]

C40_Generic503Reached ==
    \E r \in Slots : req[r].pc = "done" /\ req[r].result = ServiceUnavailable

====
